---- MODULE Spec2Model ----
(***************************************************************************)
(* A model of the stream/pipe filter library: the pipeline engine          *)
(* (Sequence, ForEach, Run, Contents, runFilter, filterErrors), the        *)
(* order-preserving concurrent mapper (MapConcurrent), the process filters *)
(* (Command, Xargs) and the samplers (Sample by reservoir and by hash).    *)
(*                                                                         *)
(* Every goroutine is a process of the model; a step of a process is one   *)
(* operation on shared state (a channel send, receive or close, a          *)
(* mutex-guarded access) together with the local computation around it.    *)
(***************************************************************************)
EXTENDS Integers, Sequences, FiniteSets, TLC

VARIABLES
    \* ---- pipeline engine ----
    filters,     \* the filters passed to Run/Contents (Sequence's argument)
    seqGeneral,  \* TRUE when the loop of Sequence is applied to a list of one filter
    chanBuf,     \* channel -> items buffered in it, oldest first
    chanClosed,  \* channel -> number of close() calls made on it
    chanHist,    \* channel -> every item ever sent on it, in send order (history)
    pc,          \* stage task -> where the task is
    held,        \* stage task -> the item its filter has read and not yet sent, if any
    cnt,         \* stage task -> loop counter of its filter
    ferr,        \* stage task -> the error its filter returned
    errBox,      \* filterErrors.err of ForEach's box ("outer") and of Sequence's ("inner")
    nRecorded,   \* box -> number of record calls made with a non-nil error (history)
    dpc,         \* where the driver (the caller's goroutine inside ForEach/Contents) is
    fnCalls,     \* the arguments of ForEach's calls of fn, in call order (history)
    result,      \* Contents' result slice
    retErr,      \* the error returned by ForEach (hence by Run and Contents)
    \* ---- MapConcurrent ----
    mcN,         \* number of worker goroutines
    mcInput,     \* the whole input sequence (history)
    mcIn,        \* arg.In: items not yet read by the reader goroutine
    mcSource,    \* the source channel's buffer of parItems
    mcSourceClosed, \* number of close(source) calls
    mcReader,    \* reader goroutine: [pc, i, item]
    mcWorker,    \* worker -> [pc, item]
    mcMu,        \* holder of mu (0: free)
    mcBuffered,  \* the buffered map, as a set of parItems
    mcNext,      \* next
    mcOut,       \* arg.Out: buffered output items
    mcOutClosed, \* number of close(arg.Out) calls
    mcEmitted,   \* every item sent on arg.Out, in order (history)
    mcMain,      \* the filter's own goroutine: "wait", "close", "done"
    mcReordered, \* some result was computed before an earlier item's (history)
    \* ---- Command ----
    cmdProc,     \* the external process: [state, read, held]; held is the line
                 \* it has read and not yet written, if any
    cmdStdin,    \* the pipe to the process's standard input: lines written, not yet read
    cmdStdinClosed, \* number of input.Close() calls
    cmdStdout,   \* the pipe from the process's standard output
    cmdLine,     \* scanner.Text(): the line Command has read and not yet sent, if any
    cmdFeeder,   \* the goroutine that feeds arg.In to the process: [pc, item];
                 \* item is the line it has received and not yet written, if any
    \* ---- Xargs ----
    xArgs,       \* args: the fixed arguments
    xLimit,      \* the maximum number of items per invocation (0: not limited)
    xInput,      \* the whole input sequence (history)
    xIn,         \* arg.In: items not yet received
    xItems,      \* items: the fixed arguments followed by the current batch
    xUsed,       \* usedBytes
    xHeld,       \* s: the item received and not yet appended to items, if any
    xByteHit,    \* the flush under way was decided by the byte limit
    xPc,         \* where Xargs is
    xProc,       \* the external process of run(): "none" or "running"
    xRuns,       \* every exec.Command(command, items...) made, in order (history)
    xOut,        \* the lines sent on arg.Out
    xErr,        \* the error returned by Xargs
    \* ---- Sample (reservoir) ----
    rsVariant,   \* which Sample: "float" (Float32 then Intn(n)) or "intn" (Intn(i+1))
    rsK,         \* n, the size of the sample
    rsInput,     \* the whole input sequence (history)
    rsIn,        \* arg.In: items not yet received
    rsI,         \* i
    rsReservoir, \* reservoir
    rsDraws,     \* the values drawn from r, in order (history)
    rsPc,        \* "loop", "emit", "done"
    rsOut,       \* the items sent on arg.Out
    \* ---- Sample (hash-ranked), run twice on the same input ----
    hsK,         \* n, the size of the sample
    hsInput,     \* the input sequence of both runs
    hsNow,       \* the time: the number of steps taken so far
    hsRun,       \* run -> [pc, in, i, h, out]
    \* ---- Sample (reservoir), two invocations running concurrently ----
    tsSeed,      \* invocation -> the seed of its random source
    tsRng,       \* random source -> its state
    tsRun,       \* invocation -> [pc, in, i, reservoir, draws, out]
    \* ---- Parallel (n, arg.In, arg.Out and runAndClose as for MapConcurrent) ----
    parWorker,   \* worker -> [pc, todo]: where it is, what fn has still to send
    parCalls     \* every call of fn: [worker, pos, value], in order (history)

engineVars == <<filters, seqGeneral, chanBuf, chanClosed, chanHist, pc, held, cnt, ferr,
                errBox, nRecorded, dpc, fnCalls, result, retErr>>
mcVars == <<mcN, mcInput, mcIn, mcSource, mcSourceClosed, mcReader, mcWorker,
            mcMu, mcBuffered, mcNext, mcOut, mcOutClosed, mcEmitted, mcMain,
            mcReordered>>
cmdVars == <<cmdProc, cmdStdin, cmdStdinClosed, cmdStdout, cmdLine, cmdFeeder>>
xVars == <<xArgs, xLimit, xInput, xIn, xItems, xUsed, xHeld, xByteHit, xPc, xProc,
           xRuns, xOut, xErr>>
rsVars == <<rsVariant, rsK, rsInput, rsIn, rsI, rsReservoir, rsDraws, rsPc, rsOut>>
hsVars == <<hsK, hsInput, hsNow, hsRun>>
tsVars == <<tsSeed, tsRng, tsRun>>
parVars == <<parWorker, parCalls>>
vars == <<engineVars, mcVars, cmdVars, xVars, rsVars, hsVars, tsVars, parVars>>

notEngineVars == <<mcVars, cmdVars, xVars, rsVars, hsVars, tsVars, parVars>>
notMcVars == <<engineVars, cmdVars, xVars, rsVars, hsVars, tsVars, parVars>>
\* what a step of Command leaves alone besides the engine's and its own variables
notCmdVars == <<mcVars, xVars, rsVars, hsVars, tsVars, parVars>>
notXVars == <<engineVars, mcVars, cmdVars, rsVars, hsVars, tsVars, parVars>>
notRsVars == <<engineVars, mcVars, cmdVars, xVars, hsVars, tsVars, parVars>>
notHsVars == <<engineVars, mcVars, cmdVars, xVars, rsVars, tsVars, parVars>>
notTsVars == <<engineVars, mcVars, cmdVars, xVars, hsVars, parVars>>
notParVars == <<engineVars, cmdVars, xVars, rsVars, hsVars, tsVars>>

(***************************************************************************)
(* Bounds of the model.                                                    *)
(***************************************************************************)
\* longest pipeline passed to Run/Contents
MaxStages == 2
\* number of items an emitting filter sends
MaxItems == 2
\* capacity of the buffered channels in the model (1000 and 10000 in the code)
channelBuffer == 1
\* longest input of MapConcurrent
MaxInput == 3
\* largest number of workers of MapConcurrent
MaxWorkers == 2
\* capacity, in lines, of an operating-system pipe of the model
PipeBuf == 1
\* number of items sent to a Command
MaxCmdInput == 4
\* longest input of Xargs
MaxXargsInput == 3
\* largest item count given to LimitArgs
MaxLimitArgs == 2
\* longest input and largest sample size of the reservoir Sample
MaxSampleInput == 4
MaxSampleK == 3
\* longest input and largest sample size of the hash-ranked Sample
MaxHashInput == 4
MaxHashK == 3

(***************************************************************************)
(* Values.                                                                 *)
(***************************************************************************)
\* the nil error
NoError == <<>>
\* the error returned by the filter at position s of the pipeline
ErrorOf(s) == <<"error", s>>
\* no item held (a held item x is <<x>>)
NoItem == <<>>

IsPrefix(s, t) == Len(s) <= Len(t) /\ SubSeq(t, 1, Len(s)) = s
Iota(n) == [i \in 1..n |-> i]

(***************************************************************************)
(* Filters.  A filter is [kind, items, arg]:                               *)
(*   Items(items)       emits items and returns nil; never reads its input *)
(*   ReadLines(reader)  emits the reader's lines (items), then returns     *)
(*                      scanner.Err(): non-nil iff arg = 1                 *)
(*   Map(fn)            emits fn(x) for every input x; arg selects fn      *)
(*   WriteLines(writer) writes and emits every input x; returns the        *)
(*                      writer's error at its arg-th write, without        *)
(*                      reading further                                    *)
(***************************************************************************)
ItemsFilter(xs) == [kind |-> "Items", items |-> xs, arg |-> 0]
ReadLinesFilter(xs, e) == [kind |-> "ReadLines", items |-> xs, arg |-> e]
MapFilter(k) == [kind |-> "Map", items |-> <<>>, arg |-> k]
WriteLinesFilter(k) == [kind |-> "WriteLines", items |-> <<>>, arg |-> k]
\* the FilterFunc returned by Sequence for a list of 0 or of 2 and more filters
SequenceFilter == [kind |-> "Sequence", items |-> <<>>, arg |-> 0]

\* the function passed to Map: fn(s) = 2*s + k, so that Map(0) and Map(1) do not commute
fn(k, x) == 2 * x + k

FilterSet ==
    {ItemsFilter(Iota(MaxItems)), MapFilter(0), MapFilter(1), WriteLinesFilter(2)}
    \cup {ReadLinesFilter(Iota(MaxItems), 1)}

Pipelines == UNION {[1..n -> FilterSet] : n \in 0..MaxStages}
\* Run(a, b, c) with two filters that return an error when they get that far,
\* followed by any filter
FailingPipelines ==
    {<<a, b, c>> : a, b \in {f \in FilterSet : f.kind \in {"ReadLines", "WriteLines"}},
                   c \in FilterSet}

(***************************************************************************)
(* Wiring.  Channel InCh is ForEach's closed input, channel s (1..n) is    *)
(* the c made by Sequence for filters[s], channel OutCh is ForEach's out.  *)
(* Task Outer is the runFilter goroutine started by ForEach, task s (1..n) *)
(* the one started by Sequence for filters[s].                             *)
(***************************************************************************)
\* the most stage tasks a Sequence starts: those of Pipelines, and one more for
\* the pipelines of FailingPipelines
MaxTasks == MaxStages + 1
InCh == 0
OutCh == MaxTasks + 1
Channels == InCh..OutCh
Outer == 0
Stages == Outer..MaxTasks
Boxes == {"outer", "inner"}

\* a Sequence without the shortcut for a single filter
Shortcut_never(fs) == FALSE
\* if len(filters) == 1: the shortcut is taken.  seqGeneral marks the runs in
\* which the loop of Sequence is applied to the single filter instead, for
\* the comparison of the two paths
Shortcut(fs) == Len(fs) = 1 /\ ~seqGeneral

\* Sequence: a single filter is returned as it is
Sequence(fs) == IF Shortcut(fs) THEN fs[1] ELSE SequenceFilter

FilterOf(s) == IF s = Outer THEN Sequence(filters) ELSE filters[s]
\* a wiring slip: every stage is given Sequence's own arg.In ("in = c" left out)
InChan_argIn(s) == InCh
\* Arg.In and Arg.Out of a stage task
InChan(s) == IF s = Outer THEN InCh ELSE s - 1
OutChan(s) == IF s = Outer THEN OutCh ELSE s
\* a slip for the empty list: the copy loop ranges over a fresh channel that no
\* stage writes to, not over arg.In
SeqLast_fresh == IF Len(filters) = 0 THEN 1 ELSE Len(filters)
\* the channel Sequence's copy loop ranges over: the last c, or arg.In for no filters
SeqLast == Len(filters)
\* the filterErrors a stage task was given
BoxOf(s) == IF s = Outer THEN "outer" ELSE "inner"
\* the stage tasks that Sequence starts
Inner == IF Shortcut(filters) THEN {} ELSE 1..Len(filters)
Tasks == {Outer} \cup Inner

\* make(chan string) for in, make(chan string, channelBuffer) for the others
Cap(c) == IF c = InCh THEN 0 ELSE channelBuffer

\* a loop that ends as soon as the channel is empty, closed or not
RangeDone_empty(c) == Len(chanBuf[c]) = 0
\* for s := range c ends: c is closed and empty
RangeDone(c) == Len(chanBuf[c]) = 0 /\ chanClosed[c] > 0
CanRecv(c) == Len(chanBuf[c]) > 0
\* a send that is given up once a stage of the sequence has recorded an error
CanSend_unlessFailed(c) ==
    Len(chanBuf[c]) < Cap(c) /\ chanClosed[c] = 0 /\ errBox["inner"] = NoError
\* c <- x can proceed: there is room in the buffer of c
CanSend(c) == Len(chanBuf[c]) < Cap(c) /\ chanClosed[c] = 0

Recv(c) == chanBuf' = [chanBuf EXCEPT ![c] = Tail(@)]
Send(c, x) ==
    /\ chanBuf' = [chanBuf EXCEPT ![c] = Append(@, x)]
    /\ chanHist' = [chanHist EXCEPT ![c] = Append(@, x)]

\* a record that keeps the last error instead of the first
record_last(e, err) == IF err # NoError THEN err ELSE e
\* filterErrors.record: the new value of e.err
record(e, err) == IF err # NoError /\ e = NoError THEN err ELSE e

\* a runFilter that closes arg.Out only when the filter returned nil
CloseOut_unlessError(s) ==
    IF ferr[s] # NoError THEN chanClosed ELSE [chanClosed EXCEPT ![OutChan(s)] = @ + 1]
\* close(arg.Out) by the task of stage s: the new close counts
CloseOut(s) == [chanClosed EXCEPT ![OutChan(s)] = @ + 1]

\* a Contents that keeps the partial result on error
Discard_keep(res, err) == res
\* Contents: result = nil on error
Discard(res, err) == IF err # NoError THEN <<>> ELSE res

(***************************************************************************)
(* The state at the start of ForEach's loop: in is closed, out and e are   *)
(* fresh and the goroutine runFilter(filter, Arg{in, out}, e) is started.  *)
(***************************************************************************)
EngineStart ==
    /\ chanBuf = [c \in Channels |-> <<>>]
    /\ chanClosed = [c \in Channels |-> IF c = InCh THEN 1 ELSE 0]
    /\ chanHist = [c \in Channels |-> <<>>]
    /\ pc = [s \in Stages |-> IF s # Outer THEN "idle"
                             ELSE IF Shortcut(filters) THEN "run" ELSE "start"]
    /\ held = [s \in Stages |-> NoItem]
    /\ cnt = [s \in Stages |-> 0]
    /\ ferr = [s \in Stages |-> NoError]
    /\ errBox = [b \in Boxes |-> NoError]
    /\ nRecorded = [b \in Boxes |-> 0]
    /\ dpc = "loop"
    /\ fnCalls = <<>>
    /\ result = <<>>
    /\ retErr = NoError

EngineInit == filters \in Pipelines /\ seqGeneral = FALSE /\ EngineStart

EngineIdle ==
    /\ filters = <<>>
    /\ seqGeneral = FALSE
    /\ chanBuf = [c \in Channels |-> <<>>]
    /\ chanClosed = [c \in Channels |-> 0]
    /\ chanHist = [c \in Channels |-> <<>>]
    /\ pc = [s \in Stages |-> "idle"]
    /\ held = [s \in Stages |-> NoItem]
    /\ cnt = [s \in Stages |-> 0]
    /\ ferr = [s \in Stages |-> NoError]
    /\ errBox = [b \in Boxes |-> NoError]
    /\ nRecorded = [b \in Boxes |-> 0]
    /\ dpc = "idle"
    /\ fnCalls = <<>>
    /\ result = <<>>
    /\ retErr = NoError

\* a filter returns err to runFilter
Return(s, err) ==
    /\ ferr' = [ferr EXCEPT ![s] = err]
    /\ pc' = [pc EXCEPT ![s] = "record"]

\* Out <- held
SendHeld(s) ==
    /\ pc[s] = "send"
    /\ CanSend(OutChan(s))
    /\ Send(OutChan(s), Head(held[s]))
    /\ held' = [held EXCEPT ![s] = NoItem]
    /\ pc' = [pc EXCEPT ![s] = "run"]
    /\ UNCHANGED <<cnt, ferr>>

\* Items: for _, s := range items { arg.Out <- s }; return nil
Items(s) ==
    /\ s \in Tasks
    /\ FilterOf(s).kind = "Items"
    /\ \/ /\ pc[s] = "run"
          /\ cnt[s] < Len(FilterOf(s).items)
          /\ CanSend(OutChan(s))
          /\ Send(OutChan(s), FilterOf(s).items[cnt[s] + 1])
          /\ cnt' = [cnt EXCEPT ![s] = @ + 1]
          /\ UNCHANGED <<pc, held, ferr>>
       \/ /\ pc[s] = "run"
          /\ cnt[s] = Len(FilterOf(s).items)
          /\ Return(s, NoError)
          /\ UNCHANGED <<chanBuf, chanHist, held, cnt>>
    /\ UNCHANGED <<filters, seqGeneral, chanClosed, errBox, nRecorded, dpc, fnCalls, result, retErr>>
    /\ UNCHANGED notEngineVars

\* ReadLines / splitIntoLines: for scanner.Scan() { arg.Out <- scanner.Text() };
\* return scanner.Err()
ReadLines(s) ==
    /\ s \in Tasks
    /\ FilterOf(s).kind = "ReadLines"
    /\ \/ /\ pc[s] = "run"
          /\ cnt[s] < Len(FilterOf(s).items)
          /\ CanSend(OutChan(s))
          /\ Send(OutChan(s), FilterOf(s).items[cnt[s] + 1])
          /\ cnt' = [cnt EXCEPT ![s] = @ + 1]
          /\ UNCHANGED <<pc, held, ferr>>
       \/ /\ pc[s] = "run"
          /\ cnt[s] = Len(FilterOf(s).items)
          /\ Return(s, IF FilterOf(s).arg = 1 THEN ErrorOf(s) ELSE NoError)
          /\ UNCHANGED <<chanBuf, chanHist, held, cnt>>
    /\ UNCHANGED <<filters, seqGeneral, chanClosed, errBox, nRecorded, dpc, fnCalls, result, retErr>>
    /\ UNCHANGED notEngineVars

\* Map: for s := range arg.In { arg.Out <- fn(s) }; return nil
Map(s) ==
    /\ s \in Tasks
    /\ FilterOf(s).kind = "Map"
    /\ \/ /\ pc[s] = "run"
          /\ CanRecv(InChan(s))
          /\ Recv(InChan(s))
          /\ held' = [held EXCEPT ![s] = <<fn(FilterOf(s).arg, Head(chanBuf[InChan(s)]))>>]
          /\ pc' = [pc EXCEPT ![s] = "send"]
          /\ UNCHANGED <<chanHist, cnt, ferr>>
       \/ SendHeld(s)
       \/ /\ pc[s] = "run"
          /\ RangeDone(InChan(s))
          /\ Return(s, NoError)
          /\ UNCHANGED <<chanBuf, chanHist, held, cnt>>
    /\ UNCHANGED <<filters, seqGeneral, chanClosed, errBox, nRecorded, dpc, fnCalls, result, retErr>>
    /\ UNCHANGED notEngineVars

\* WriteLines: for s := range arg.In { if _, err := Fprintln(writer, s); err != nil
\* { return err }; arg.Out <- s }; return nil
WriteLines(s) ==
    /\ s \in Tasks
    /\ FilterOf(s).kind = "WriteLines"
    /\ \/ /\ pc[s] = "run"
          /\ CanRecv(InChan(s))
          /\ Recv(InChan(s))
          /\ cnt' = [cnt EXCEPT ![s] = @ + 1]
          /\ IF FilterOf(s).arg = cnt[s] + 1
                THEN /\ Return(s, ErrorOf(s))
                     /\ UNCHANGED held
                ELSE /\ held' = [held EXCEPT ![s] = <<Head(chanBuf[InChan(s)])>>]
                     /\ pc' = [pc EXCEPT ![s] = "send"]
                     /\ UNCHANGED ferr
          /\ UNCHANGED chanHist
       \/ SendHeld(s)
       \/ /\ pc[s] = "run"
          /\ RangeDone(InChan(s))
          /\ Return(s, NoError)
          /\ UNCHANGED <<chanBuf, chanHist, held, cnt>>
    /\ UNCHANGED <<filters, seqGeneral, chanClosed, errBox, nRecorded, dpc, fnCalls, result, retErr>>
    /\ UNCHANGED notEngineVars

\* a Sequence that returns nil whatever its stages recorded
SeqError_nil == NoError
\* return e.getError() of Sequence
SeqError == errBox["inner"]

\* The FilterFunc of Sequence: start runFilter for every filter, copy the last
\* channel to arg.Out, return e.getError()
SequenceRun(s) ==
    /\ s = Outer
    /\ FilterOf(s).kind = "Sequence"
    /\ \/ /\ pc[s] = "start"
          /\ pc' = [t \in Stages |-> IF t = s THEN "run"
                                     ELSE IF t \in Inner THEN "run" ELSE pc[t]]
          /\ UNCHANGED <<chanBuf, chanHist, held, cnt, ferr>>
       \/ /\ pc[s] = "run"
          /\ CanRecv(SeqLast)
          /\ Recv(SeqLast)
          /\ held' = [held EXCEPT ![s] = <<Head(chanBuf[SeqLast])>>]
          /\ pc' = [pc EXCEPT ![s] = "send"]
          /\ UNCHANGED <<chanHist, cnt, ferr>>
       \/ SendHeld(s)
       \/ /\ pc[s] = "run"
          /\ RangeDone(SeqLast)
          /\ pc' = [pc EXCEPT ![s] = "getError"]
          /\ UNCHANGED <<chanBuf, chanHist, held, cnt, ferr>>
       \/ /\ pc[s] = "getError"
          /\ Return(s, SeqError)
          /\ UNCHANGED <<chanBuf, chanHist, held, cnt>>
    /\ UNCHANGED <<filters, seqGeneral, chanClosed, errBox, nRecorded, dpc, fnCalls, result, retErr>>
    /\ UNCHANGED notEngineVars

\* a runFilter that ends without reading the unhandled input
Drain_skip(s) ==
    /\ pc[s] = "drain"
    /\ pc' = [pc EXCEPT ![s] = "done"]
    /\ UNCHANGED chanBuf

\* for _ = range arg.In {}: discard all unhandled input
Drain(s) ==
    /\ pc[s] = "drain"
    /\ \/ /\ CanRecv(InChan(s))
          /\ Recv(InChan(s))
          /\ UNCHANGED pc
       \/ /\ RangeDone(InChan(s))
          /\ pc' = [pc EXCEPT ![s] = "done"]
          /\ UNCHANGED chanBuf

\* a runFilter that closes arg.Out before it records the error
runFilter_closeFirst(s) ==
    /\ s \in Tasks
    /\ \/ /\ pc[s] = "record"
          /\ chanClosed' = CloseOut(s)
          /\ pc' = [pc EXCEPT ![s] = "close"]
          /\ UNCHANGED <<chanBuf, errBox, nRecorded>>
       \/ /\ pc[s] = "close"
          /\ errBox' = [errBox EXCEPT ![BoxOf(s)] = record(@, ferr[s])]
          /\ nRecorded' = [nRecorded EXCEPT ![BoxOf(s)] =
                              IF ferr[s] # NoError THEN @ + 1 ELSE @]
          /\ pc' = [pc EXCEPT ![s] = "drain"]
          /\ UNCHANGED <<chanBuf, chanClosed>>
       \/ /\ Drain(s)
          /\ UNCHANGED <<chanClosed, errBox, nRecorded>>
    /\ UNCHANGED <<filters, seqGeneral, chanHist, held, cnt, ferr, dpc, fnCalls, result, retErr>>
    /\ UNCHANGED notEngineVars

\* runFilter after f.RunFilter(arg) has returned: e.record(err); close(arg.Out);
\* for _ = range arg.In {}
runFilter(s) ==
    /\ s \in Tasks
    /\ \/ /\ pc[s] = "record"
          /\ errBox' = [errBox EXCEPT ![BoxOf(s)] = record(@, ferr[s])]
          /\ nRecorded' = [nRecorded EXCEPT ![BoxOf(s)] =
                              IF ferr[s] # NoError THEN @ + 1 ELSE @]
          /\ pc' = [pc EXCEPT ![s] = "close"]
          /\ UNCHANGED <<chanBuf, chanClosed>>
       \/ /\ pc[s] = "close"
          /\ chanClosed' = CloseOut(s)
          /\ pc' = [pc EXCEPT ![s] = "drain"]
          /\ UNCHANGED <<chanBuf, errBox, nRecorded>>
       \/ /\ Drain(s)
          /\ UNCHANGED <<chanClosed, errBox, nRecorded>>
    /\ UNCHANGED <<filters, seqGeneral, chanHist, held, cnt, ferr, dpc, fnCalls, result, retErr>>
    /\ UNCHANGED notEngineVars

\* ForEach: for s := range out { fn(s) }; return e.getError().  fn is the one
\* Contents passes (result = append(result, s)); Run passes a fn that does nothing.
ForEach ==
    /\ \/ /\ dpc = "loop"
          /\ CanRecv(OutCh)
          /\ Recv(OutCh)
          /\ fnCalls' = Append(fnCalls, Head(chanBuf[OutCh]))
          /\ result' = Append(result, Head(chanBuf[OutCh]))
          /\ UNCHANGED <<dpc, retErr>>
       \/ /\ dpc = "loop"
          /\ RangeDone(OutCh)
          /\ dpc' = "getError"
          /\ UNCHANGED <<chanBuf, fnCalls, result, retErr>>
       \/ /\ dpc = "getError"
          /\ retErr' = errBox["outer"]
          /\ dpc' = "contents"
          /\ UNCHANGED <<chanBuf, fnCalls, result>>
    /\ UNCHANGED <<filters, seqGeneral, chanClosed, chanHist, pc, held, cnt, ferr, errBox, nRecorded>>
    /\ UNCHANGED notEngineVars

\* Contents after ForEach has returned err: if err != nil { result = nil }
Contents ==
    /\ dpc = "contents"
    /\ result' = Discard(result, retErr)
    /\ dpc' = "returned"
    /\ UNCHANGED <<filters, seqGeneral, chanBuf, chanClosed, chanHist, pc, held, cnt, ferr,
                   errBox, nRecorded, fnCalls, retErr>>
    /\ UNCHANGED notEngineVars

\* ForEach (hence Run) has returned retErr
ForEachReturned == dpc \in {"contents", "returned"}

(***************************************************************************)
(* MapConcurrent is idle in the engine's specification.                    *)
(***************************************************************************)
McIdle ==
    /\ mcN = 0
    /\ mcInput = <<>>
    /\ mcIn = <<>>
    /\ mcSource = <<>>
    /\ mcSourceClosed = 0
    /\ mcReader = [pc |-> "idle"]
    /\ mcWorker = <<>>
    /\ mcMu = 0
    /\ mcBuffered = {}
    /\ mcNext = 0
    /\ mcOut = <<>>
    /\ mcOutClosed = 0
    /\ mcEmitted = <<>>
    /\ mcMain = "idle"
    /\ mcReordered = FALSE

(***************************************************************************)
(* No Command is part of the pipeline.                                     *)
(***************************************************************************)
CmdIdle ==
    /\ cmdProc = [state |-> "none", read |-> 0, held |-> <<>>]
    /\ cmdStdin = <<>>
    /\ cmdStdinClosed = 0
    /\ cmdStdout = <<>>
    /\ cmdLine = <<>>
    /\ cmdFeeder = [pc |-> "idle", item |-> <<>>]

(***************************************************************************)
(* No Xargs is running.                                                    *)
(***************************************************************************)
XIdle ==
    /\ xArgs = <<>>
    /\ xLimit = 0
    /\ xInput = <<>>
    /\ xIn = <<>>
    /\ xItems = <<>>
    /\ xUsed = 0
    /\ xHeld = <<>>
    /\ xByteHit = FALSE
    /\ xPc = "idle"
    /\ xProc = "none"
    /\ xRuns = <<>>
    /\ xOut = <<>>
    /\ xErr = NoError

(***************************************************************************)
(* No Sample is running.                                                   *)
(***************************************************************************)
SampleIdle ==
    /\ rsVariant = "none"
    /\ rsK = 0
    /\ rsInput = <<>>
    /\ rsIn = <<>>
    /\ rsI = 0
    /\ rsReservoir = <<>>
    /\ rsDraws = <<>>
    /\ rsPc = "idle"
    /\ rsOut = <<>>

HashIdle ==
    /\ hsK = 0
    /\ hsInput = <<>>
    /\ hsNow = 0
    /\ hsRun = <<>>

TwinIdle ==
    /\ tsSeed = <<>>
    /\ tsRng = <<>>
    /\ tsRun = <<>>

ParIdle ==
    /\ parWorker = <<>>
    /\ parCalls = <<>>

\* the components that take no part in the specification at hand
OthersIdle == XIdle /\ SampleIdle /\ HashIdle /\ TwinIdle /\ ParIdle

(***************************************************************************)
(* The engine: Contents(filters...) / Run(filters...) with every           *)
(* interleaving of the stage tasks and the driver.                         *)
(***************************************************************************)
Init == EngineInit /\ McIdle /\ CmdIdle /\ OthersIdle

Next ==
    \/ \E s \in Stages : Items(s)
    \/ \E s \in Stages : ReadLines(s)
    \/ \E s \in Stages : Map(s)
    \/ \E s \in Stages : WriteLines(s)
    \/ \E s \in Stages : SequenceRun(s)
    \/ \E s \in Stages : runFilter(s)
    \/ ForEach
    \/ Contents

Spec == Init /\ [][Next]_vars

\* the filters a single-filter Sequence is compared on
SingleFilters ==
    FilterSet
    \cup {ItemsFilter(Iota(n)) : n \in 0..MaxItems}
    \cup {ReadLinesFilter(Iota(n), e) : n \in 0..MaxItems, e \in {0, 1}}

\* Contents(f) for one filter f, with Sequence returning f itself or running
\* its loop on the list <<f>>
SingleInit ==
    /\ filters \in {<<f>> : f \in SingleFilters}
    /\ seqGeneral \in BOOLEAN
    /\ EngineStart
    /\ McIdle /\ CmdIdle /\ OthersIdle

SingleSpec == SingleInit /\ [][Next]_vars

\* the pipelines scheduled fairly: the function passed to Map does not change
\* what a stage waits for, so one Map stands for both
FairPipelines == {p \in Pipelines : \A i \in DOMAIN p : p[i] # MapFilter(1)}

FairInit ==
    /\ filters \in FairPipelines
    /\ seqGeneral = FALSE
    /\ EngineStart
    /\ McIdle /\ CmdIdle /\ OthersIdle

\* the scheduler never stops while some goroutine can take a step
FairSpec == FairInit /\ [][Next]_vars /\ WF_vars(Next)

\* the engine running a pipeline of FailingPipelines
ErrInit ==
    /\ filters \in FailingPipelines
    /\ seqGeneral = FALSE
    /\ EngineStart
    /\ McIdle
    /\ CmdIdle
    /\ OthersIdle

ErrSpec == ErrInit /\ [][Next]_vars

(***************************************************************************)
(* MapConcurrent(n, fn) run by runAndClose: a reader goroutine numbers the *)
(* items of arg.In into source; n workers apply fn and yield the results   *)
(* in order under mu; the filter returns after wg.Wait() and runAndClose   *)
(* closes arg.Out.  The consumer is the next stage reading arg.Out.        *)
(***************************************************************************)
McValues == {1, 2}
McInputs == UNION {[1..n -> McValues] : n \in 0..MaxInput}
Workers == 1..mcN

\* the fn passed to MapConcurrent
mapFn(x) == fn(1, x)

parItem(i, v) == [index |-> i, value |-> v]

McInit ==
    /\ mcN \in 1..MaxWorkers
    /\ mcInput \in McInputs
    /\ mcIn = mcInput
    /\ mcSource = <<>>
    /\ mcSourceClosed = 0
    /\ mcReader = [pc |-> "read", i |-> 0, item |-> parItem(0, 0)]
    /\ mcWorker = [w \in 1..mcN |-> [pc |-> "recv", item |-> parItem(0, 0)]]
    /\ mcMu = 0
    /\ mcBuffered = {}
    /\ mcNext = 0
    /\ mcOut = <<>>
    /\ mcOutClosed = 0
    /\ mcEmitted = <<>>
    /\ mcMain = "wait"
    /\ mcReordered = FALSE

\* a reader that gives every item the same sequence number
NextIndex_same(i) == i
\* i++ of the reader
NextIndex(i) == i + 1

\* go func() { i := 0; for s := range arg.In { source <- parItem{i, s}; i++ };
\* close(source) }()
McReader ==
    /\ \/ /\ mcReader.pc = "read"
          /\ mcIn # <<>>
          /\ mcReader' = [mcReader EXCEPT !.pc = "send",
                                          !.item = parItem(mcReader.i, Head(mcIn))]
          /\ mcIn' = Tail(mcIn)
          /\ UNCHANGED <<mcSource, mcSourceClosed>>
       \/ /\ mcReader.pc = "send"
          /\ Len(mcSource) < channelBuffer
          /\ mcSource' = Append(mcSource, mcReader.item)
          /\ mcReader' = [mcReader EXCEPT !.pc = "read", !.i = NextIndex(@)]
          /\ UNCHANGED <<mcIn, mcSourceClosed>>
       \/ /\ mcReader.pc = "read"
          /\ mcIn = <<>>
          /\ mcSourceClosed' = mcSourceClosed + 1
          /\ mcReader' = [mcReader EXCEPT !.pc = "done"]
          /\ UNCHANGED <<mcIn, mcSource>>
    /\ UNCHANGED <<mcN, mcInput, mcWorker, mcMu, mcBuffered, mcNext, mcOut,
                   mcOutClosed, mcEmitted, mcMain, mcReordered>>
    /\ UNCHANGED notMcVars

\* a lookup that also takes results of later items
Lookup_later(buffered, next) == {x \in buffered : x.index >= next}
\* x, ok := buffered[next]: the entry of key next, if there is one
Lookup(buffered, next) == {x \in buffered : x.index = next}

\* buffered[item.index] = item
Insert(buffered, item) == {x \in buffered : x.index # item.index} \cup {item}

\* a loop that leaves next where it was
Advance_stay(next) == next
\* next++ of the yield loop
Advance(next) == next + 1

\* a worker that keeps the mutex
Unlock_never(mu) == mu
\* mu.Unlock(): the mutex is free again
Unlock(mu) == 0

\* a Wait that returns as soon as one worker has called Done
wgWait_any(worker) == \E w \in DOMAIN worker : worker[w].pc = "done"
\* wg.Wait() can return: each of the n workers has called wg.Done()
wgWait(worker) == \A w \in DOMAIN worker : worker[w].pc = "done"

\* a worker: for item := range source { s := fn(item.value); mu.Lock();
\* buffered[item.index] = parItem{item.index, s}; for { x, ok := buffered[next];
\* if !ok { break }; arg.Out <- x.value; delete(buffered, next); next++ };
\* mu.Unlock() }; wg.Done()
McWorker(w) ==
    /\ w \in DOMAIN mcWorker
    /\ \/ /\ mcWorker[w].pc = "recv"
          /\ mcSource # <<>>
          /\ mcSource' = Tail(mcSource)
          /\ mcWorker' = [mcWorker EXCEPT ![w] =
                [pc |-> "lock",
                 item |-> parItem(Head(mcSource).index, mapFn(Head(mcSource).value))]]
          /\ UNCHANGED <<mcMu, mcBuffered, mcNext, mcOut, mcEmitted, mcReordered>>
       \/ /\ mcWorker[w].pc = "recv"
          /\ mcSource = <<>>
          /\ mcSourceClosed > 0
          /\ mcWorker' = [mcWorker EXCEPT ![w].pc = "done"]
          /\ UNCHANGED <<mcSource, mcMu, mcBuffered, mcNext, mcOut, mcEmitted, mcReordered>>
       \/ /\ mcWorker[w].pc = "lock"
          /\ mcMu = 0
          /\ mcMu' = w
          /\ mcBuffered' = Insert(mcBuffered, mcWorker[w].item)
          /\ mcWorker' = [mcWorker EXCEPT ![w].pc = "yield"]
          /\ mcReordered' = (mcReordered \/ mcWorker[w].item.index > mcNext)
          /\ UNCHANGED <<mcSource, mcNext, mcOut, mcEmitted>>
       \/ /\ mcWorker[w].pc = "yield"
          /\ Lookup(mcBuffered, mcNext) # {}
          /\ Len(mcOut) < channelBuffer
          /\ LET x == CHOOSE x \in Lookup(mcBuffered, mcNext) : TRUE
             IN  /\ mcOut' = Append(mcOut, x.value)
                 /\ mcEmitted' = Append(mcEmitted, x.value)
                 /\ mcBuffered' = mcBuffered \ {x}
          /\ mcNext' = Advance(mcNext)
          /\ UNCHANGED <<mcSource, mcMu, mcWorker, mcReordered>>
       \/ /\ mcWorker[w].pc = "yield"
          /\ Lookup(mcBuffered, mcNext) = {}
          /\ mcMu' = Unlock(mcMu)
          /\ mcWorker' = [mcWorker EXCEPT ![w].pc = "recv"]
          /\ UNCHANGED <<mcSource, mcBuffered, mcNext, mcOut, mcEmitted, mcReordered>>
    /\ UNCHANGED <<mcN, mcInput, mcIn, mcSourceClosed, mcReader, mcOutClosed, mcMain>>
    /\ UNCHANGED notMcVars

\* wg.Wait() returns, MapConcurrent returns and runAndClose closes arg.Out
McReturn ==
    /\ mcWorker # <<>>
    /\ \/ /\ mcMain = "wait"
          /\ wgWait(mcWorker)
          /\ mcMain' = "close"
          /\ UNCHANGED mcOutClosed
       \/ /\ mcMain = "close"
          /\ mcOutClosed' = mcOutClosed + 1
          /\ mcMain' = "done"
    /\ UNCHANGED <<mcN, mcInput, mcIn, mcSource, mcSourceClosed, mcReader, mcWorker,
                   mcMu, mcBuffered, mcNext, mcOut, mcEmitted, mcReordered>>
    /\ UNCHANGED notMcVars

\* the next stage takes an item from arg.Out
McConsume ==
    /\ mcWorker # <<>>
    /\ mcOut # <<>>
    /\ mcOut' = Tail(mcOut)
    /\ UNCHANGED <<mcN, mcInput, mcIn, mcSource, mcSourceClosed, mcReader, mcWorker,
                   mcMu, mcBuffered, mcNext, mcOutClosed, mcEmitted, mcMain, mcReordered>>
    /\ UNCHANGED notMcVars

McSpecInit == McInit /\ EngineIdle /\ CmdIdle /\ OthersIdle

McNext ==
    \/ McReader
    \/ \E w \in 1..MaxWorkers : McWorker(w)
    \/ McReturn
    \/ McConsume

McSpec == McSpecInit /\ [][McNext]_vars

(***************************************************************************)
(* Parallel(n, fn) run by runAndClose: n workers receive from arg.In and   *)
(* call fn(s, arg.Out), which sends its results on arg.Out; the filter     *)
(* returns after wg.Wait() and runAndClose closes arg.Out.                 *)
(***************************************************************************)
\* the fn passed to Parallel: what fn(x, out) sends on out
parFn(x) == IF x = 1 THEN <<mapFn(x)>> ELSE <<mapFn(x), mapFn(x) + 1>>

\* a receive that leaves the item in the channel
RangeIn_peek(in) == [s |-> Head(in), rest |-> in]
\* for s := range arg.In: the item received and what is left in the channel
RangeIn(in) == [s |-> Head(in), rest |-> Tail(in)]

ParInit ==
    /\ mcN \in 1..MaxWorkers
    /\ mcInput \in McInputs
    /\ mcIn = mcInput
    /\ mcSource = <<>>
    /\ mcSourceClosed = 0
    /\ mcReader = [pc |-> "idle"]
    /\ mcWorker = <<>>
    /\ mcMu = 0
    /\ mcBuffered = {}
    /\ mcNext = 0
    /\ mcOut = <<>>
    /\ mcOutClosed = 0
    /\ mcEmitted = <<>>
    /\ mcMain = "wait"
    /\ mcReordered = FALSE
    /\ parWorker = [w \in 1..mcN |-> [pc |-> "recv", todo |-> <<>>]]
    /\ parCalls = <<>>

\* a worker: for s := range arg.In { fn(s, arg.Out) }; wg.Done()
ParWorker(w) ==
    /\ w \in DOMAIN parWorker
    /\ \/ /\ parWorker[w].pc = "recv"
          /\ mcIn # <<>>
          /\ mcIn' = RangeIn(mcIn).rest
          /\ parWorker' = [parWorker EXCEPT ![w] =
                [pc |-> "fn", todo |-> parFn(RangeIn(mcIn).s)]]
          /\ parCalls' = Append(parCalls,
                [worker |-> w, pos |-> Len(mcInput) - Len(mcIn) + 1,
                 value |-> RangeIn(mcIn).s])
          /\ UNCHANGED <<mcOut, mcEmitted>>
       \/ /\ parWorker[w].pc = "recv"
          /\ mcIn = <<>>
          /\ parWorker' = [parWorker EXCEPT ![w].pc = "done"]
          /\ UNCHANGED <<mcIn, mcOut, mcEmitted, parCalls>>
       \/ /\ parWorker[w].pc = "fn"
          /\ parWorker[w].todo # <<>>
          /\ Len(mcOut) < channelBuffer
          /\ mcOut' = Append(mcOut, Head(parWorker[w].todo))
          /\ mcEmitted' = Append(mcEmitted, Head(parWorker[w].todo))
          /\ parWorker' = [parWorker EXCEPT ![w].todo = Tail(@)]
          /\ UNCHANGED <<mcIn, parCalls>>
       \/ /\ parWorker[w].pc = "fn"
          /\ parWorker[w].todo = <<>>
          /\ parWorker' = [parWorker EXCEPT ![w].pc = "recv"]
          /\ UNCHANGED <<mcIn, mcOut, mcEmitted, parCalls>>
    /\ UNCHANGED <<mcN, mcInput, mcSource, mcSourceClosed, mcReader, mcWorker, mcMu,
                   mcBuffered, mcNext, mcOutClosed, mcMain, mcReordered>>
    /\ UNCHANGED notParVars

\* wg.Wait() returns, Parallel returns and runAndClose closes arg.Out
ParReturn ==
    /\ parWorker # <<>>
    /\ \/ /\ mcMain = "wait"
          /\ wgWait(parWorker)
          /\ mcMain' = "close"
          /\ UNCHANGED mcOutClosed
       \/ /\ mcMain = "close"
          /\ mcOutClosed' = mcOutClosed + 1
          /\ mcMain' = "done"
    /\ UNCHANGED <<mcN, mcInput, mcIn, mcSource, mcSourceClosed, mcReader, mcWorker,
                   mcMu, mcBuffered, mcNext, mcOut, mcEmitted, mcReordered>>
    /\ UNCHANGED <<parVars, notParVars>>

\* the next stage takes an item from arg.Out
ParConsume ==
    /\ parWorker # <<>>
    /\ mcOut # <<>>
    /\ mcOut' = Tail(mcOut)
    /\ UNCHANGED <<mcN, mcInput, mcIn, mcSource, mcSourceClosed, mcReader, mcWorker,
                   mcMu, mcBuffered, mcNext, mcOutClosed, mcEmitted, mcMain, mcReordered>>
    /\ UNCHANGED <<parVars, notParVars>>

ParSpecInit ==
    ParInit /\ EngineIdle /\ CmdIdle /\ XIdle /\ SampleIdle /\ HashIdle /\ TwinIdle

ParNext ==
    \/ \E w \in 1..MaxWorkers : ParWorker(w)
    \/ ParReturn
    \/ ParConsume

ParSpec == ParSpecInit /\ [][ParNext]_vars

\* a filter with a pool of workers, MapConcurrent or Parallel
PoolInit == McSpecInit \/ ParSpecInit

PoolNext ==
    \/ McReader
    \/ \E w \in 1..MaxWorkers : McWorker(w)
    \/ McReturn
    \/ McConsume
    \/ \E w \in 1..MaxWorkers : ParWorker(w)
    \/ ParReturn
    \/ ParConsume

PoolSpec == PoolInit /\ [][PoolNext]_vars

\* the scheduler never stops while some goroutine of MapConcurrent or the
\* reader of arg.Out can take a step
McFairSpec == McSpecInit /\ [][McNext]_vars /\ WF_vars(McNext)

(***************************************************************************)
(* Command(command, args...): the filter starts the external process, a    *)
(* goroutine feeds the items of arg.In to the process's standard input and *)
(* closes it, the filter itself splits the process's standard output into  *)
(* lines sent on arg.Out and returns cmd.Wait().                           *)
(*                                                                         *)
(* An external process is [spawn, reads, status]: whether cmd.Start()      *)
(* succeeds, how much of its input it reads ("all", "one" line, "none")    *)
(* before it exits, and its exit status.  A process echoes every line it   *)
(* reads.  Pipes hold PipeBuf lines.                                       *)
(***************************************************************************)
Process(sp, rd, st) == [spawn |-> sp, reads |-> rd, status |-> st]
\* cat; false; head -1; a command that does not exist
Processes ==
    {Process(TRUE, "all", 0), Process(TRUE, "none", 1), Process(TRUE, "one", 0),
     Process(FALSE, "none", 1)}

CommandFilter(p) == [kind |-> "Command", items |-> <<>>, arg |-> p]

CmdPipelines ==
    UNION {{<<CommandFilter(p)>>,
            <<ItemsFilter(Iota(MaxCmdInput)), CommandFilter(p)>>,
            <<CommandFilter(p), ItemsFilter(Iota(MaxItems))>>} : p \in Processes}

\* the stage of the pipeline that is the Command
CmdStage == CHOOSE s \in Tasks : FilterOf(s).kind = "Command"
TheProcess == FilterOf(CmdStage).arg

\* a Command that copies all of arg.In to the process before it reads any output
CanScan_afterFeed == cmdFeeder.pc = "done"
\* splitIntoLines runs as soon as the process is started: the feeding loop is in
\* a goroutine of its own
CanScan == cmdProc.state # "none"

\* a scanner that stops as soon as the process has exited
AtEOF_exited == cmdProc.state = "exited"
\* scanner.Scan() returns false: the pipe is empty and its writing end is
\* closed, the process having exited
AtEOF == Len(cmdStdout) = 0 /\ cmdProc.state = "exited"

\* the error of cmd.Wait() for an exited process
WaitError(s) == IF FilterOf(s).arg.status # 0 THEN ErrorOf(s) ELSE NoError

Command(s) ==
    /\ s \in Tasks
    /\ FilterOf(s).kind = "Command"
    /\ \/ \* cmd.Start() fails: return err
          /\ pc[s] = "run"
          /\ ~FilterOf(s).arg.spawn
          /\ Return(s, ErrorOf(s))
          /\ UNCHANGED <<chanBuf, chanHist, cmdVars>>
       \/ \* cmd.Start() succeeds; go func() { ... }()
          /\ pc[s] = "run"
          /\ FilterOf(s).arg.spawn
          /\ cmdProc' = [cmdProc EXCEPT !.state = "running"]
          /\ cmdFeeder' = [cmdFeeder EXCEPT !.pc = "read"]
          /\ pc' = [pc EXCEPT ![s] = "scan"]
          /\ UNCHANGED <<chanBuf, chanHist, ferr, cmdStdin, cmdStdinClosed, cmdStdout,
                         cmdLine>>
       \/ \* splitIntoLines: scanner.Scan() reads a line of output
          /\ pc[s] = "scan"
          /\ CanScan
          /\ Len(cmdStdout) > 0
          /\ cmdLine' = <<Head(cmdStdout)>>
          /\ cmdStdout' = Tail(cmdStdout)
          /\ pc' = [pc EXCEPT ![s] = "send"]
          /\ UNCHANGED <<chanBuf, chanHist, ferr, cmdProc, cmdStdin, cmdStdinClosed,
                         cmdFeeder>>
       \/ \* arg.Out <- scanner.Text()
          /\ pc[s] = "send"
          /\ CanSend(OutChan(s))
          /\ Send(OutChan(s), Head(cmdLine))
          /\ cmdLine' = <<>>
          /\ pc' = [pc EXCEPT ![s] = "scan"]
          /\ UNCHANGED <<ferr, cmdProc, cmdStdin, cmdStdinClosed, cmdStdout, cmdFeeder>>
       \/ \* scanner.Scan() sees the end of the output: the process has exited
          /\ pc[s] = "scan"
          /\ CanScan
          /\ AtEOF
          /\ pc' = [pc EXCEPT ![s] = "wait"]
          /\ UNCHANGED <<chanBuf, chanHist, ferr, cmdVars>>
       \/ \* return cmd.Wait()
          /\ pc[s] = "wait"
          /\ cmdProc.state = "exited"
          /\ Return(s, WaitError(s))
          /\ UNCHANGED <<chanBuf, chanHist, cmdVars>>
    /\ UNCHANGED <<filters, seqGeneral, chanClosed, held, cnt, errBox, nRecorded, dpc, fnCalls,
                   result, retErr>>
    /\ UNCHANGED notCmdVars

\* a write to the pipe of an exited process that blocks for ever
WriteFails_never == FALSE
\* fmt.Fprintln(input, s) returns an error at once: the reading end of the
\* pipe is gone with the process
WriteFails == cmdProc.state = "exited"

\* go func() { for s := range arg.In { fmt.Fprintln(input, s) }; input.Close() }()
CommandFeeder ==
    /\ \/ /\ cmdFeeder.pc = "read"
          /\ CanRecv(InChan(CmdStage))
          /\ Recv(InChan(CmdStage))
          /\ cmdFeeder' = [pc |-> "write", item |-> <<Head(chanBuf[InChan(CmdStage)])>>]
          /\ UNCHANGED <<cmdStdin, cmdStdinClosed>>
       \/ \* the write fails when the process has exited; the error is ignored
          /\ cmdFeeder.pc = "write"
          /\ WriteFails
          /\ cmdFeeder' = [pc |-> "read", item |-> <<>>]
          /\ UNCHANGED <<chanBuf, cmdStdin, cmdStdinClosed>>
       \/ /\ cmdFeeder.pc = "write"
          /\ cmdProc.state = "running"
          /\ Len(cmdStdin) < PipeBuf
          /\ cmdStdin' = cmdStdin \o cmdFeeder.item
          /\ cmdFeeder' = [pc |-> "read", item |-> <<>>]
          /\ UNCHANGED <<chanBuf, cmdStdinClosed>>
       \/ /\ cmdFeeder.pc = "read"
          /\ RangeDone(InChan(CmdStage))
          /\ cmdStdinClosed' = cmdStdinClosed + 1
          /\ cmdFeeder' = [pc |-> "done", item |-> <<>>]
          /\ UNCHANGED <<chanBuf, cmdStdin>>
    /\ UNCHANGED <<filters, seqGeneral, chanClosed, chanHist, pc, held, cnt, ferr, errBox,
                   nRecorded, dpc, fnCalls, result, retErr, cmdProc, cmdStdout, cmdLine>>
    /\ UNCHANGED notCmdVars

\* the process may read another line of its input
WantsInput == TheProcess.reads = "all" \/ (TheProcess.reads = "one" /\ cmdProc.read = 0)

\* the external process
ProcessStep ==
    /\ cmdProc.state = "running"
    /\ \/ /\ cmdProc.held = <<>>
          /\ WantsInput
          /\ Len(cmdStdin) > 0
          /\ cmdProc' = [cmdProc EXCEPT !.held = <<Head(cmdStdin)>>, !.read = @ + 1]
          /\ cmdStdin' = Tail(cmdStdin)
          /\ UNCHANGED cmdStdout
       \/ /\ cmdProc.held # <<>>
          /\ Len(cmdStdout) < PipeBuf
          /\ cmdStdout' = cmdStdout \o cmdProc.held
          /\ cmdProc' = [cmdProc EXCEPT !.held = <<>>]
          /\ UNCHANGED cmdStdin
       \/ \* exit: at the end of the input, or when it wants no more of it
          /\ cmdProc.held = <<>>
          /\ ~WantsInput \/ (Len(cmdStdin) = 0 /\ cmdStdinClosed > 0)
          /\ cmdProc' = [cmdProc EXCEPT !.state = "exited"]
          /\ UNCHANGED <<cmdStdin, cmdStdout>>
    /\ UNCHANGED <<engineVars, cmdStdinClosed, cmdLine, cmdFeeder>>
    /\ UNCHANGED notCmdVars

CmdInit ==
    /\ filters \in CmdPipelines
    /\ seqGeneral = FALSE
    /\ EngineStart
    /\ CmdIdle
    /\ McIdle
    /\ OthersIdle

CmdNext ==
    \/ \E s \in Stages : Items(s)
    \/ \E s \in Stages : Command(s)
    \/ CommandFeeder
    \/ ProcessStep
    \/ \E s \in Stages : SequenceRun(s)
    \/ \E s \in Stages : runFilter(s)
    \/ ForEach
    \/ Contents

CmdSpec == CmdInit /\ [][CmdNext]_vars

\* the scheduler and the operating system never stop while something can run
CmdFairSpec == CmdInit /\ [][CmdNext]_vars /\ WF_vars(CmdNext)

(***************************************************************************)
(* Xargs(command, args...): items of arg.In are appended to the argument   *)
(* list until the next one would reach limitBytes; the batch is then run   *)
(* by run() (one process, its output split into lines, cmd.Wait()), and    *)
(* the next batch starts with the fixed arguments.  An argument is         *)
(* [id, len]: id is the position of the item in the input (0 for the       *)
(* command and the fixed arguments), len its length in bytes.              *)
(***************************************************************************)
limitBytes == 4096 - 100

Arg(i, l) == [id |-> i, len |-> l]
\* "echo"
command == Arg(0, 4)
\* the lengths of input items: short, half of a full batch, too long for any batch
ItemLens == {1, 1995, 3991}
XargsArgs == {<<>>, <<Arg(0, 1)>>}
XargsInputs ==
    UNION {{[i \in 1..n |-> Arg(i, l[i])] : l \in [1..n -> ItemLens]} :
           n \in 0..MaxXargsInput}

\* one separator byte and the argument
Bytes(a) == 1 + a.len
RECURSIVE SumBytes(_)
SumBytes(as) == IF as = <<>> THEN 0 ELSE Bytes(Head(as)) + SumBytes(Tail(as))
\* baseBytes: the command and the fixed arguments
baseBytes == command.len + SumBytes(xArgs)

\* a limit test that lets a batch reach the limit exactly
ByteLimitHit_over(used, s) == used + 1 + s.len > limitBytes
\* a limit test that is always true: every item gets an invocation of its own
ByteLimitHit_always(used, s) == TRUE
\* usedBytes+1+len(s) >= limitBytes
ByteLimitHit(used, s) == used + 1 + s.len >= limitBytes

\* a count test that lets a batch take one item more than the limit
ArgsLimitHit_over(n, m) == m > 0 /\ n > m
\* LimitArgs(m): the batch already holds m items
ArgsLimitHit(n, m) == m > 0 /\ n >= m

\* a count that takes the fixed arguments for items
BatchLen_all(items) == Len(items)
\* a reset that drops the fixed arguments with the batch
ResetItems_empty(items) == <<>>
\* items = items[0:len(args)]
ResetItems(items) == SubSeq(items, 1, Len(xArgs))

\* the number of input items in items
BatchLen(items) == Len(items) - Len(xArgs)

\* len(items) > len(args) && usedBytes+1+len(s) >= limitBytes, or the count limit
FlushNeeded(items, used, s) ==
    /\ BatchLen(items) > 0
    /\ ByteLimitHit(used, s) \/ ArgsLimitHit(BatchLen(items), xLimit)

XInit ==
    /\ xArgs \in XargsArgs
    /\ xLimit \in 0..MaxLimitArgs
    /\ xInput \in XargsInputs
    /\ xIn = xInput
    /\ xItems = xArgs
    /\ xUsed = baseBytes
    /\ xHeld = <<>>
    /\ xByteHit = FALSE
    /\ xPc = "loop"
    /\ xProc = "none"
    /\ xRuns = <<>>
    /\ xOut = <<>>
    /\ xErr = NoError

\* a run that returns without waiting for its process
Waited_not(proc) == proc
\* cmd.Wait() has returned: the process is gone
Waited(proc) == "none"

\* an error that is kept while the loop goes on
XReturn_goOn(err) ==
    /\ xErr' = err
    /\ xPc' = "loop"
\* return err
XReturn(err) ==
    /\ xErr' = err
    /\ xPc' = "returned"

\* for s := range arg.In { ... }; if len(items) > len(args) { return run() }; return nil
XLoop ==
    /\ xPc = "loop"
    /\ \/ \* the batch is flushed before s is appended
          /\ xIn # <<>>
          /\ FlushNeeded(xItems, xUsed, Head(xIn))
          /\ xHeld' = <<Head(xIn)>>
          /\ xByteHit' = ByteLimitHit(xUsed, Head(xIn))
          /\ xIn' = Tail(xIn)
          /\ xPc' = "run"
          /\ UNCHANGED <<xItems, xUsed, xErr>>
       \/ \* items = append(items, s); usedBytes += 1 + len(s)
          /\ xIn # <<>>
          /\ ~FlushNeeded(xItems, xUsed, Head(xIn))
          /\ xItems' = Append(xItems, Head(xIn))
          /\ xUsed' = xUsed + Bytes(Head(xIn))
          /\ xIn' = Tail(xIn)
          /\ UNCHANGED <<xHeld, xByteHit, xPc, xErr>>
       \/ \* the input has ended with a batch to run
          /\ xIn = <<>>
          /\ BatchLen(xItems) > 0
          /\ xPc' = "runLast"
          /\ xByteHit' = FALSE
          /\ UNCHANGED <<xIn, xItems, xUsed, xHeld, xErr>>
       \/ \* the input has ended with no batch to run
          /\ xIn = <<>>
          /\ BatchLen(xItems) = 0
          /\ XReturn(NoError)
          /\ UNCHANGED <<xIn, xItems, xUsed, xHeld, xByteHit>>
    /\ UNCHANGED <<xArgs, xLimit, xInput, xProc, xRuns, xOut>>
    /\ UNCHANGED notXVars

\* the record of one exec.Command(command, items...)
Invocation == [argv |-> xItems, bytes |-> xUsed, byteHit |-> xByteHit,
               last |-> xPc = "runLast"]

\* run(): start the process; send its output lines on arg.Out; cmd.Wait()
XRun ==
    /\ xPc \in {"run", "runLast"}
    /\ \/ \* cmd.Start() fails
          /\ xProc = "none"
          /\ xRuns' = Append(xRuns, Invocation)
          /\ XReturn(ErrorOf(Len(xRuns) + 1))
          /\ UNCHANGED <<xItems, xUsed, xHeld, xProc, xOut>>
       \/ \* cmd.Start() succeeds
          /\ xProc = "none"
          /\ xRuns' = Append(xRuns, Invocation)
          /\ xProc' = "running"
          /\ UNCHANGED <<xItems, xUsed, xHeld, xPc, xOut, xErr>>
       \/ \* splitIntoLines fails after a part of the output was sent on
          \* arg.Out: cmd.Wait(), then return err
          /\ xProc = "running"
          /\ \E n \in 0..(Len(xItems) - 1) :
                xOut' = Append(xOut, SubSeq(xItems, 1, n))
          /\ xProc' = Waited(xProc)
          /\ XReturn(ErrorOf(Len(xRuns)))
          /\ UNCHANGED <<xItems, xUsed, xHeld, xRuns>>
       \/ \* the output is sent on arg.Out and cmd.Wait() returns an error
          /\ xProc = "running"
          /\ xOut' = Append(xOut, xItems)
          /\ xProc' = Waited(xProc)
          /\ XReturn(ErrorOf(Len(xRuns)))
          /\ UNCHANGED <<xItems, xUsed, xHeld, xRuns>>
       \/ \* the output is sent on arg.Out and cmd.Wait() returns nil: the loop
          \* goes on with a new batch that starts with s
          /\ xProc = "running"
          /\ xPc = "run"
          /\ xOut' = Append(xOut, xItems)
          /\ xProc' = Waited(xProc)
          /\ xItems' = Append(ResetItems(xItems), Head(xHeld))
          /\ xUsed' = baseBytes + Bytes(Head(xHeld))
          /\ xHeld' = <<>>
          /\ xPc' = "loop"
          /\ UNCHANGED <<xRuns, xErr>>
       \/ \* the last run() returns nil
          /\ xProc = "running"
          /\ xPc = "runLast"
          /\ xOut' = Append(xOut, xItems)
          /\ xProc' = Waited(xProc)
          /\ XReturn(NoError)
          /\ UNCHANGED <<xItems, xUsed, xHeld, xRuns>>
    /\ UNCHANGED <<xArgs, xLimit, xInput, xIn, xByteHit>>
    /\ UNCHANGED notXVars

\* runFilter after Xargs has returned: for _ = range arg.In {}
XDrain ==
    /\ \/ /\ xPc = "returned"
          /\ xIn # <<>>
          /\ xIn' = Tail(xIn)
          /\ UNCHANGED xPc
       \/ /\ xPc = "returned"
          /\ xIn = <<>>
          /\ xPc' = "done"
          /\ UNCHANGED xIn
    /\ UNCHANGED <<xArgs, xLimit, xInput, xItems, xUsed, xHeld, xByteHit, xProc, xRuns,
                   xOut, xErr>>
    /\ UNCHANGED notXVars

XargsInit ==
    XInit /\ EngineIdle /\ McIdle /\ CmdIdle /\ SampleIdle /\ HashIdle /\ TwinIdle
    /\ ParIdle

XargsNext ==
    \/ XLoop
    \/ XRun
    \/ XDrain

XargsSpec == XargsInit /\ [][XargsNext]_vars

(***************************************************************************)
(* Sample(n), reservoir sampling.  Two versions of the loop are in the     *)
(* repository: "float" replaces reservoir[r.Intn(n)] when                  *)
(* r.Float32() < float32(n)/float32(i+1); "intn" draws j := r.Intn(i+1)    *)
(* and replaces reservoir[j] when j < n.  What r returns is any value of   *)
(* its range; the outcomes of one loop iteration are listed with their     *)
(* weights, the probability of an outcome being its weight over the sum of *)
(* the weights.  The Float32 draw is listed by the one of i+1 equal parts  *)
(* of [0, 1) it falls in: it is below n/(i+1) iff the part is below n.     *)
(***************************************************************************)
\* the input of the tests: Numbers(1, n)
SampleInputs == {Iota(n) : n \in 0..MaxSampleInput}

\* a loop that appends the first n + 1 items
Appending_le(i, k) == i <= k
\* i < n: the item is appended to the reservoir
Appending(i, k) == i < k

\* a draw from i values for the item at index i
Upto_i(i) == i
\* i + 1, of r.Intn(i+1) and of float32(n)/float32(i+1)
Upto(i) == i + 1

\* an item put in front of the reservoir
AppendItem_front(res, s) == <<s>> \o res
\* reservoir = append(reservoir, s)
AppendItem(res, s) == Append(res, s)

\* a loop that sends the first item of the reservoir each time
RangeReservoir_first(res, sent) == res[1]
\* for _, s := range reservoir: the item after the ones already sent
RangeReservoir(res, sent) == res[sent + 1]

\* reservoir[j] = s
ReplaceAt(res, j, s) == [res EXCEPT ![j + 1] = s]

Outcome(w, d, res) == [w |-> w, draw |-> d, res |-> res]

\* j := r.Intn(i + 1); if j < n { reservoir[j] = s }
IntnOutcomes(k, i, res, s) ==
    [d \in 1..Upto(i) |->
        Outcome(1, <<d - 1>>, IF d - 1 < k THEN ReplaceAt(res, d - 1, s) ELSE res)]

\* case r.Float32() < float32(n)/float32(i+1): reservoir[r.Intn(n)] = s
\* first the k parts below n, each with the k values of r.Intn(n), then the
\* other parts, each as likely as k of the former
FloatOutcomes(k, i, res, s) ==
    [d \in 1..(k * k + Upto(i) - k) |->
        IF d <= k * k
        THEN Outcome(1, <<(d - 1) \div k, (d - 1) % k>>,
                     ReplaceAt(res, (d - 1) % k, s))
        ELSE Outcome(IF k = 0 THEN 1 ELSE k, <<d - 1 - k * k + k>>, res)]

\* one iteration of the loop for item s: the possible outcomes
Outcomes(variant, k, i, res, s) ==
    IF Appending(i, k) THEN <<Outcome(1, <<>>, AppendItem(res, s))>>
    ELSE IF variant = "intn" THEN IntnOutcomes(k, i, res, s)
    ELSE FloatOutcomes(k, i, res, s)

RsInit ==
    /\ rsVariant \in {"float", "intn"}
    /\ rsK \in 0..MaxSampleK
    /\ rsInput \in SampleInputs
    /\ rsIn = rsInput
    /\ rsI = 0
    /\ rsReservoir = <<>>
    /\ rsDraws = <<>>
    /\ rsPc = "loop"
    /\ rsOut = <<>>

\* for s := range arg.In { ...; i++ }
RsLoop ==
    /\ rsPc = "loop"
    /\ \/ /\ rsIn # <<>>
          /\ \E d \in DOMAIN Outcomes(rsVariant, rsK, rsI, rsReservoir, Head(rsIn)) :
                LET o == Outcomes(rsVariant, rsK, rsI, rsReservoir, Head(rsIn))[d]
                IN  /\ rsReservoir' = o.res
                    /\ rsDraws' = IF o.draw = <<>> THEN rsDraws
                                  ELSE Append(rsDraws, o.draw)
          /\ rsI' = rsI + 1
          /\ rsIn' = Tail(rsIn)
          /\ UNCHANGED rsPc
       \/ /\ rsIn = <<>>
          /\ rsPc' = "emit"
          /\ UNCHANGED <<rsIn, rsI, rsReservoir, rsDraws>>
    /\ UNCHANGED <<rsVariant, rsK, rsInput, rsOut>>
    /\ UNCHANGED notRsVars

\* for _, s := range reservoir { arg.Out <- s }; return nil
RsEmit ==
    /\ rsPc = "emit"
    /\ \/ /\ Len(rsOut) < Len(rsReservoir)
          /\ rsOut' = Append(rsOut, RangeReservoir(rsReservoir, Len(rsOut)))
          /\ UNCHANGED rsPc
       \/ /\ Len(rsOut) = Len(rsReservoir)
          /\ rsPc' = "done"
          /\ UNCHANGED rsOut
    /\ UNCHANGED <<rsVariant, rsK, rsInput, rsIn, rsI, rsReservoir, rsDraws>>
    /\ UNCHANGED notRsVars

SampleInit ==
    RsInit /\ EngineIdle /\ McIdle /\ CmdIdle /\ XIdle /\ HashIdle /\ TwinIdle
    /\ ParIdle

SampleNext ==
    \/ RsLoop
    \/ RsEmit

SampleSpec == SampleInit /\ [][SampleNext]_vars

(***************************************************************************)
(* Sample(n), hash-ranked: every item is pushed on a heap ordered by the   *)
(* SHA-1 hash of "<index> <item>", the heap is cut back to n entries, and  *)
(* at the end of the input the heap is popped into arg.Out.  The filter is *)
(* run twice, independently, on the same input.  Indices into the heap's   *)
(* slice are the code's (from 0); h[i + 1] is the code's h[i].             *)
(***************************************************************************)
HashValues == {1, 2}
HashInputs == UNION {[1..n -> HashValues] : n \in 0..MaxHashInput}
Runs == {1, 2}

\* a hash input that takes the time of the run in
HashKey_timed(i, s) == <<i + hsNow, s>>
\* fmt.Sprintf("%d %s", i, s)
HashKey(i, s) == <<i, s>>
\* sha1.Sum: a function whose values do not follow the order of its arguments and
\* do not collide on the keys of the model
Hash(key) == ((2 * key[1] + key[2]) * 7) % 31

\* sample{hash, item} for the i-th item s
SampleOf(i, s) == [hash |-> Hash(HashKey(i, s)), item |-> s]

\* an order that puts the largest hash on top of the heap
Less_greater(h, i, j) == h[i + 1].hash > h[j + 1].hash
\* samples.Less
Less(h, i, j) == h[i + 1].hash < h[j + 1].hash
\* samples.Swap
Swap(h, i, j) == [h EXCEPT ![i + 1] = h[j + 1], ![j + 1] = h[i + 1]]

\* container/heap: up(h, j)
RECURSIVE up(_, _)
up(h, j) ==
    IF j = 0 THEN h
    ELSE LET i == (j - 1) \div 2
         IN  IF ~Less(h, j, i) THEN h ELSE up(Swap(h, i, j), i)

\* container/heap: down(h, i, n)
RECURSIVE down(_, _, _)
down(h, i, n) ==
    LET j1 == 2 * i + 1
    IN  IF j1 >= n THEN h
        ELSE LET j == IF j1 + 1 < n /\ Less(h, j1 + 1, j1) THEN j1 + 1 ELSE j1
             IN  IF ~Less(h, j, i) THEN h ELSE down(Swap(h, i, j), j, n)

\* heap.Push(h, x): h.Push(x); up(h, h.Len()-1)
heapPush(h, x) == up(Append(h, x), Len(h))
\* heap.Pop(h): n := h.Len() - 1; h.Swap(0, n); down(h, 0, n); return h.Pop()
heapPop(h) ==
    LET n == Len(h) - 1
        swapped == down(Swap(h, 0, n), 0, n)
    IN  [h |-> SubSeq(swapped, 1, n), x |-> swapped[n + 1]]

\* heap.Push(h, sample{...}); if len(*h) > n { heap.Pop(h) }
PushAndCut(h, x, k) ==
    IF Len(heapPush(h, x)) > k THEN heapPop(heapPush(h, x)).h ELSE heapPush(h, x)

HsInit ==
    /\ hsK \in 0..MaxHashK
    /\ hsInput \in HashInputs
    /\ hsNow = 0
    /\ hsRun = [r \in Runs |->
                   [pc |-> "loop", in |-> hsInput, i |-> 0, h |-> <<>>, out |-> <<>>]]

\* for s := range arg.In { i++; ...; heap.Push(...); if len(*h) > n { heap.Pop(h) } }
HsLoop(r) ==
    /\ hsRun[r].pc = "loop"
    /\ \/ /\ hsRun[r].in # <<>>
          /\ hsRun' = [hsRun EXCEPT
                 ![r].i = @ + 1,
                 ![r].in = Tail(@),
                 ![r].h = PushAndCut(@, SampleOf(hsRun[r].i + 1, Head(hsRun[r].in)),
                                     hsK)]
       \/ /\ hsRun[r].in = <<>>
          /\ hsRun' = [hsRun EXCEPT ![r].pc = "emit"]
    /\ hsNow' = hsNow + 1
    /\ UNCHANGED <<hsK, hsInput>>
    /\ UNCHANGED notHsVars

\* for len(*h) > 0 { arg.Out <- heap.Pop(h).(sample).item }
HsEmit(r) ==
    /\ hsRun[r].pc = "emit"
    /\ \/ /\ Len(hsRun[r].h) > 0
          /\ hsRun' = [hsRun EXCEPT
                 ![r].out = Append(@, heapPop(hsRun[r].h).x.item),
                 ![r].h = heapPop(@).h]
       \/ /\ Len(hsRun[r].h) = 0
          /\ hsRun' = [hsRun EXCEPT ![r].pc = "done"]
    /\ hsNow' = hsNow + 1
    /\ UNCHANGED <<hsK, hsInput>>
    /\ UNCHANGED notHsVars

HashSampleInit ==
    HsInit /\ EngineIdle /\ McIdle /\ CmdIdle /\ XIdle /\ SampleIdle /\ TwinIdle
    /\ ParIdle

HashSampleNext ==
    \/ \E r \in Runs : HsLoop(r)
    \/ \E r \in Runs : HsEmit(r)

HashSampleSpec == HashSampleInit /\ [][HashSampleNext]_vars

(***************************************************************************)
(* Sample, two invocations side by side.  Each invocation builds its own   *)
(* random source, r := rand.New(rand.NewSource(seed)); a source is a       *)
(* deterministic generator, here a linear congruential one.  The seed is   *)
(* the clock reading of Sample or the seed passed to SampleWithSeed.       *)
(***************************************************************************)
MaxSeed == 2
RngModulus == 7
Invocations == {1, 2}
\* the seeds handed to the two invocations
SampleSeeds == 1..MaxSeed

\* rand.NewSource(seed): the state of a fresh source
NewSource(seed) == seed % RngModulus
\* one step of the generator; the value returned is the new state
Rand(g) == (3 * g + 1) % RngModulus

\* both invocations draw from one source of the process
SourceOf_shared(r) == 1
\* the source of an invocation is the one it built itself
SourceOf(r) == r

\* one iteration of the loop for item s with the source in state g: the
\* reservoir, the source and the values drawn afterwards
Iteration(variant, k, i, res, s, g) ==
    IF Appending(i, k) THEN [res |-> AppendItem(res, s), g |-> g, draw |-> <<>>]
    ELSE IF variant = "intn"
    THEN LET g1 == Rand(g)
             j == g1 % Upto(i)
         IN  [res |-> IntnOutcomes(k, i, res, s)[j + 1].res, g |-> g1,
              draw |-> <<j>>]
    ELSE LET g1 == Rand(g)
             u == g1 % Upto(i)
         IN  IF u < k
             THEN LET g2 == Rand(g1)
                      t == g2 % k
                  IN  [res |-> FloatOutcomes(k, i, res, s)[u * k + t + 1].res,
                       g |-> g2, draw |-> <<u, t>>]
             ELSE [res |-> FloatOutcomes(k, i, res, s)[k * k + u - k + 1].res,
                   g |-> g1, draw |-> <<u>>]

TsInit ==
    /\ rsVariant \in {"float", "intn"}
    /\ rsK \in 0..MaxSampleK
    /\ rsInput \in SampleInputs
    /\ rsIn = <<>>
    /\ rsI = 0
    /\ rsReservoir = <<>>
    /\ rsDraws = <<>>
    /\ rsPc = "idle"
    /\ rsOut = <<>>
    /\ tsSeed \in [Invocations -> SampleSeeds]
    /\ tsRng = [r \in Invocations |-> NewSource(tsSeed[r])]
    /\ tsRun = [r \in Invocations |->
                  [pc |-> "loop", in |-> rsInput, i |-> 0, reservoir |-> <<>>,
                   draws |-> <<>>, out |-> <<>>]]

\* for s := range arg.In { ...; i++ } of invocation r
TsLoop(r) ==
    /\ tsRun[r].pc = "loop"
    /\ \/ /\ tsRun[r].in # <<>>
          /\ LET it == Iteration(rsVariant, rsK, tsRun[r].i, tsRun[r].reservoir,
                                 Head(tsRun[r].in), tsRng[SourceOf(r)])
             IN  /\ tsRun' = [tsRun EXCEPT ![r].reservoir = it.res,
                                           ![r].draws = @ \o it.draw,
                                           ![r].i = @ + 1,
                                           ![r].in = Tail(@)]
                 /\ tsRng' = [tsRng EXCEPT ![SourceOf(r)] = it.g]
       \/ /\ tsRun[r].in = <<>>
          /\ tsRun' = [tsRun EXCEPT ![r].pc = "emit"]
          /\ UNCHANGED tsRng
    /\ UNCHANGED tsSeed
    /\ UNCHANGED <<rsVars, notTsVars>>

\* for _, s := range reservoir { arg.Out <- s }; return nil
TsEmit(r) ==
    /\ tsRun[r].pc = "emit"
    /\ \/ /\ Len(tsRun[r].out) < Len(tsRun[r].reservoir)
          /\ tsRun' = [tsRun EXCEPT
                          ![r].out = Append(@, tsRun[r].reservoir[Len(@) + 1])]
       \/ /\ Len(tsRun[r].out) = Len(tsRun[r].reservoir)
          /\ tsRun' = [tsRun EXCEPT ![r].pc = "done"]
    /\ UNCHANGED <<tsSeed, tsRng>>
    /\ UNCHANGED <<rsVars, notTsVars>>

TwinSampleInit ==
    TsInit /\ EngineIdle /\ McIdle /\ CmdIdle /\ XIdle /\ HashIdle /\ ParIdle

TwinSampleNext ==
    \/ \E r \in Invocations : TsLoop(r)
    \/ \E r \in Invocations : TsEmit(r)

TwinSampleSpec == TwinSampleInit /\ [][TwinSampleNext]_vars

(***************************************************************************)
(* Properties of the engine.                                               *)
(***************************************************************************)
\* the tasks that run a filter of the list passed to Run
FilterTasks == IF Shortcut(filters) THEN {Outer} ELSE Inner
\* the filter of the task has returned and the task has closed its output
Finished(s) == pc[s] \in {"drain", "done"}
\* a filter of the list fails
Failing(f) == f.kind \in {"ReadLines", "WriteLines"} /\ f.arg # 0
ErrorFree(fs) == \A i \in 1..Len(fs) : ~Failing(fs[i])

\* C1: Run returns a non-nil error whenever any filter of the sequence returned a
\* non-nil error: once ForEach has returned, a filter that has returned an error
\* implies that the returned error is not nil.
C1_RunReturnsError ==
    ForEachReturned =>
        ((\E s \in FilterTasks : ferr[s] # NoError) => retErr # NoError)

\* C2: Run/ForEach eventually returns and no send of an upstream stage blocks
\* forever: under fair scheduling the driver returns and every stage task ends,
\* also when a downstream stage returned early.
C2_Terminates == <>(dpc = "returned" /\ \A s \in Tasks : pc[s] = "done")

\* a stage returned with an error after the stage before it had sent more items
\* than its channel holds, and everything has ended
C2_Witness ==
    /\ dpc = "returned"
    /\ \A s \in Tasks : pc[s] = "done"
    /\ \E s \in Inner :
          /\ s > 1
          /\ ferr[s] # NoError
          /\ Len(chanHist[s - 1]) > channelBuffer

\* C4: Contents returns an empty result with a non-nil error, whatever had been
\* accumulated, and with a nil error every item of the final output in order.
C4_Contents ==
    dpc = "returned" =>
        /\ retErr # NoError => result = <<>>
        /\ retErr = NoError => result = chanHist[OutCh]

C4_Witness == dpc = "returned" /\ retErr # NoError /\ fnCalls # <<>>

\* C5: a filterErrors is write-once: no step changes a non-nil stored error, and
\* recording nil changes nothing.
C5_WriteOnce ==
    [][/\ \A b \in Boxes : errBox[b] # NoError => errBox'[b] = errBox[b]
       /\ \A s \in Stages :
            (pc[s] = "record" /\ pc'[s] = "close" /\ ferr[s] = NoError)
                => errBox' = errBox]_vars

\* two stages have recorded a non-nil error in the same box
C5_Witness == \E b \in Boxes : nRecorded[b] >= 2

\* C6: every channel of the run is closed exactly once, by the task of the stage
\* that writes to it, after its filter returned nil or an error: a channel is
\* closed iff its stage is past close(arg.Out), and never twice.
C6_ClosedOnce ==
    /\ \A c \in Channels : chanClosed[c] <= 1
    /\ \A s \in Tasks : (chanClosed[OutChan(s)] = 1) <=> Finished(s)
    /\ \A c \in Channels \ ({InCh} \cup {OutChan(s) : s \in Tasks}) : chanClosed[c] = 0

\* all tasks of a longest pipeline have ended, one with an error and one without
C6_Witness ==
    /\ Len(filters) = MaxStages
    /\ \A s \in Tasks : pc[s] = "done"
    /\ \A c \in {InCh} \cup {OutChan(s) : s \in Tasks} : chanClosed[c] = 1
    /\ \E s, t \in Inner : ferr[s] # NoError /\ ferr[t] = NoError

\* what a filter that does not fail makes of an input sequence
Apply(f, in) ==
    CASE f.kind = "Items" -> f.items
      [] f.kind = "ReadLines" -> f.items
      [] f.kind = "Map" -> [i \in 1..Len(in) |-> fn(f.arg, in[i])]
      [] f.kind = "WriteLines" -> in

\* the output of the first n filters run one after the other on the empty input
RECURSIVE Compose(_, _)
Compose(fs, n) == IF n = 0 THEN <<>> ELSE Apply(fs[n], Compose(fs, n - 1))

\* C7: for filters that do not fail, what is sent on every channel of Sequence is
\* a prefix of the composition of the filters before it, the whole of it once the
\* channel is closed, and ForEach gets the composition of all filters.
C7_Composition ==
    ErrorFree(filters) =>
        /\ \A c \in Inner :
              /\ IsPrefix(chanHist[c], Compose(filters, c))
              /\ chanClosed[c] > 0 => chanHist[c] = Compose(filters, c)
        /\ IsPrefix(fnCalls, Compose(filters, Len(filters)))
        /\ ForEachReturned => fnCalls = Compose(filters, Len(filters))

C7_Witness ==
    /\ ForEachReturned
    /\ Len(filters) = MaxStages
    /\ filters[1].kind = "Items"
    /\ \A i \in 2..Len(filters) : filters[i].kind = "Map"
    /\ Len(fnCalls) = MaxItems

\* C8: under fair scheduling the empty pipeline run by Run/ForEach/Contents
\* terminates with an empty output (nothing was ever sent on out or passed to
\* fn), an empty result and a nil error.
C8_Empty ==
    (filters = <<>>) =>
        <>(/\ dpc = "returned"
           /\ chanHist[OutCh] = <<>> /\ fnCalls = <<>> /\ result = <<>>
           /\ retErr = NoError /\ \A b \in Boxes : errBox[b] = NoError)

C8_Witness == filters = <<>> /\ dpc = "returned" /\ pc[Outer] = "done"

\* C9: ForEach calls fn once for each item of the filter's output, in emission
\* order, and returns only when out is closed and every item was passed to fn.
C9_ForEach ==
    /\ fnCalls \o chanBuf[OutCh] = chanHist[OutCh]
    /\ ForEachReturned =>
          /\ chanClosed[OutCh] > 0
          /\ fnCalls = chanHist[OutCh]

C9_Witness == ForEachReturned /\ Len(fnCalls) >= 2

\* C10: when Run/ForEach/Contents returns, every stage task of the run has
\* finished: its filter has returned and its output channel is closed.
C10_TornDown == ForEachReturned => \A s \in Tasks : Finished(s)

\* the task of stage s has closed its output channel
OutClosed(s) == chanClosed[OutChan(s)] > 0

\* C23 as stated: in every state in which the output channel of a stage is
\* closed, the error the stage's filter returned, if any, is the error in the
\* ErrorBox of the stage.
C23_ErrorInBox ==
    \A s \in Tasks :
        (OutClosed(s) /\ ferr[s] # NoError) => errBox[BoxOf(s)] = ferr[s]

\* C23, amended: a stage task records, then closes, then drains: its output
\* is closed exactly when it is past the close, it drains only then, and in
\* every state in which the output channel of a stage is closed and the
\* stage's filter returned an error, that error has been handed to the
\* ErrorBox: the box holds an error, the stage's own or the one another
\* stage task of the same box recorded before it.
C23_RecordedBeforeClose ==
    \A s \in Tasks :
        /\ OutClosed(s) <=> pc[s] \in {"drain", "done"}
        /\ (OutClosed(s) /\ ferr[s] # NoError) =>
              /\ nRecorded[BoxOf(s)] >= 1
              /\ \E t \in Tasks :
                    /\ BoxOf(t) = BoxOf(s)
                    /\ pc[t] \in {"close", "drain", "done"}
                    /\ errBox[BoxOf(s)] = ferr[t]
\* a stage has closed its output after its filter returned an error, and the
\* ErrorBox holds the error another stage recorded first
C23_Witness ==
    \E s \in Tasks :
        /\ OutClosed(s)
        /\ ferr[s] # NoError
        /\ errBox[BoxOf(s)] # NoError
        /\ errBox[BoxOf(s)] # ferr[s]

\* the filter of stage task s has run to its natural end: a source has sent
\* all its items, Map and the copy loop of Sequence have handled everything
\* that was sent to them, WriteLines everything before its failing write
RanToEnd(s) ==
    LET f == FilterOf(s)
        in == chanHist[InChan(s)]
        out == chanHist[OutChan(s)]
    IN  CASE f.kind \in {"Items", "ReadLines"} -> out = f.items
          [] f.kind = "Map" -> out = [i \in 1..Len(in) |-> fn(f.arg, in[i])]
          [] f.kind = "WriteLines" ->
                out = IF f.arg \in 1..Len(in) THEN SubSeq(in, 1, f.arg - 1) ELSE in
          [] f.kind = "Sequence" -> out = chanHist[SeqLast]
          [] OTHER -> FALSE
SomeStageFailed == \E s \in Tasks : ferr[s] # NoError

\* C24: a failed stage cancels nothing: every stage task eventually
\* terminates (filter returned, output closed, input drained), and when a
\* stage has returned an error every filter has all the same run to its
\* natural end, so that every send a stage attempted has succeeded: every
\* source has sent all its items and every other filter everything it had
\* to pass on.  (An error once returned stays, and so does the end of a task.)
C24_NothingCancelled ==
    <>(\A t \in Tasks : pc[t] = "done" /\ (SomeStageFailed => RanToEnd(t)))
\* everything has ended after the second stage failed, and the stage before
\* it, which did not fail, has sent all its items
C24_Witness ==
    /\ \A t \in Tasks : pc[t] = "done" /\ RanToEnd(t)
    /\ \E s, t \in Inner :
          /\ t < s
          /\ ferr[s] # NoError
          /\ ferr[t] = NoError
          /\ Len(chanHist[OutChan(t)]) = MaxItems
          /\ Len(chanHist[OutChan(s)]) < MaxItems

\* the errors the filters of the list have returned
StageErrors == {ferr[s] : s \in {t \in FilterTasks : ferr[t] # NoError}}

\* C25: when two or more stages of a pipeline return errors, the error
\* surfaced to the caller is exactly one of those errors: once Run/ForEach
\* has returned, two or more errors returned by stages imply that the
\* returned error is one of them.
C25_OneOfTheErrors ==
    (ForEachReturned /\ Cardinality(StageErrors) >= 2) => retErr \in StageErrors

\* the single filter returns a non-nil error when run on ForEach's empty input
FailsAlone(f) == f.kind = "ReadLines" /\ f.arg = 1

\* C37: Sequence called with exactly one filter returns that filter itself:
\* ForEach's task runs the filter, and Sequence starts no task, makes no
\* channel and uses no filterErrors of its own.  The shortcut cannot be told
\* from the loop of Sequence applied to the same filter: on either path fn
\* is called with the filter's output, in order, and ForEach returns the
\* error the filter returned, nil when it returned nil.
C37_SingleFilter ==
    Len(filters) = 1 =>
        /\ ~seqGeneral =>
              /\ FilterOf(Outer) = filters[1]
              /\ \A s \in Stages \ {Outer} : pc[s] = "idle"
              /\ \A c \in Channels \ {InCh, OutCh} :
                    chanHist[c] = <<>> /\ chanClosed[c] = 0
              /\ nRecorded["inner"] = 0
        /\ IsPrefix(fnCalls, Apply(filters[1], <<>>))
        /\ ForEachReturned =>
              /\ fnCalls = Apply(filters[1], <<>>)
              /\ retErr # NoError <=> FailsAlone(filters[1])
              /\ \A s \in FilterTasks : retErr = ferr[s]
        /\ dpc = "returned" =>
              result = IF FailsAlone(filters[1]) THEN <<>> ELSE Apply(filters[1], <<>>)
\* the loop of Sequence was run on a single filter that sent all its items
\* and then returned an error, and Contents has returned that error
C37_Witness ==
    /\ Len(filters) = 1
    /\ seqGeneral
    /\ dpc = "returned"
    /\ FailsAlone(filters[1])
    /\ Len(fnCalls) = MaxItems
    /\ retErr = ferr[1]
    /\ retErr # NoError

(***************************************************************************)
(* Properties of MapConcurrent.                                            *)
(***************************************************************************)
Mapped == [i \in 1..Len(mcInput) |-> mapFn(mcInput[i])]

\* C3: the output of MapConcurrent is fn(x_0), ..., fn(x_{m-1}) in input order:
\* what was sent on arg.Out is always a prefix of it, and all of it once the
\* workers have ended.
C3_InOrder ==
    /\ IsPrefix(mcEmitted, Mapped)
    /\ mcMain # "wait" => mcEmitted = Mapped

\* more than one worker, results computed out of order, the longest input
C3_Witness ==
    /\ mcMain = "done"
    /\ mcN > 1
    /\ mcReordered
    /\ Len(mcInput) = MaxInput
    /\ mcInput[1] # mcInput[2]

\* every worker of the pool has ended
WorkersDone ==
    /\ \A w \in DOMAIN mcWorker : mcWorker[w].pc = "done"
    /\ \A w \in DOMAIN parWorker : parWorker[w].pc = "done"

\* C26: MapConcurrent and Parallel return only after every worker has ended
\* and the work queue (source, or arg.In for Parallel) is closed and empty,
\* so that nothing is sent on the output channel after runAndClose closed it.
C26_NoSendAfterClose ==
    /\ [](mcMain # "wait" =>
            /\ WorkersDone
            /\ mcIn = <<>>
            /\ mcSource = <<>>
            /\ mcWorker # <<>> => mcSourceClosed > 0)
    /\ [][mcOutClosed > 0 => mcEmitted' = mcEmitted]_vars
\* a full pool has ended, the output is closed, and the last item sent is
\* still in the channel
C26_Witness ==
    /\ mcMain = "done"
    /\ mcOutClosed = 1
    /\ mcN = MaxWorkers
    /\ Len(mcInput) = MaxInput
    /\ mcOut # <<>>

\* the sequence numbers in the work queue, taken by a worker that has not yet
\* recorded its result, and in the pending map
InSource == {mcSource[j].index : j \in DOMAIN mcSource}
Taken == {w \in DOMAIN mcWorker : mcWorker[w].pc = "lock"}
InHand == {mcWorker[w].item.index : w \in Taken}
Pending == {x.index : x \in mcBuffered}

\* C27: the reader numbers the items 0, 1, 2, ... in arrival order: it has
\* queued the first i items of the input, the queue holds consecutive numbers
\* with their items, every number from next to i - 1 is in exactly one place
\* (queue, a worker, pending map), and the queue is closed once, when the
\* input is exhausted and every item is queued.
C27_SequenceNumbers ==
    /\ mcReader.i = Len(mcInput) - Len(mcIn) - (IF mcReader.pc = "send" THEN 1 ELSE 0)
    /\ mcReader.pc = "send" =>
          mcReader.item = parItem(mcReader.i, mcInput[mcReader.i + 1])
    /\ \A j \in DOMAIN mcSource :
          LET n == mcReader.i - Len(mcSource) + j - 1
          IN  n >= 0 /\ mcSource[j] = parItem(n, mcInput[n + 1])
    /\ Cardinality(InHand) = Cardinality(Taken)
    /\ Cardinality(Pending) = Cardinality(mcBuffered)
    /\ InSource \cap InHand = {}
    /\ InSource \cap Pending = {}
    /\ InHand \cap Pending = {}
    /\ InSource \cup InHand \cup Pending = mcNext..(mcReader.i - 1)
    /\ mcSourceClosed <= 1
    /\ mcSourceClosed = 1 <=> mcReader.pc = "done"
    /\ mcSourceClosed = 1 => (mcIn = <<>> /\ mcReader.i = Len(mcInput))
\* the reader has closed the queue after the longest input, the last item
\* still queued
C27_Witness ==
    /\ mcSourceClosed = 1
    /\ mcReader.i = MaxInput
    /\ mcSource # <<>>
    /\ mcSource[Len(mcSource)].index = MaxInput - 1

\* C28: whenever the mutex is free, next is the number of results written to
\* the output and every key of the pending map is greater than next; when
\* MapConcurrent returns the pending map is empty and next is the number of
\* items read.
C28_Publication ==
    /\ mcMu = 0 =>
          /\ mcNext = Len(mcEmitted)
          /\ \A x \in mcBuffered : x.index > mcNext
    /\ (mcWorker # <<>> /\ mcMain # "wait") =>
          /\ mcBuffered = {}
          /\ mcNext = Len(mcInput)
\* the mutex is free, a result has been published and a later one waits in
\* the pending map for the one before it
C28_Witness ==
    /\ mcMu = 0
    /\ mcNext > 0
    /\ mcBuffered # {}

\* a worker holds the mutex and cannot send because the output is full, while
\* another worker waits for the mutex
HolderBlocked ==
    \E w, v \in DOMAIN mcWorker :
        /\ mcMu = w
        /\ mcWorker[w].pc = "yield"
        /\ Lookup(mcBuffered, mcNext) # {}
        /\ Len(mcOut) >= channelBuffer
        /\ mcWorker[v].pc = "lock"
McTerminated ==
    /\ mcMain = "done"
    /\ mcReader.pc = "done"
    /\ \A w \in DOMAIN mcWorker : mcWorker[w].pc = "done"

\* C29: MapConcurrent terminates for every finite input and every N >= 1 when
\* fn returns and the output is consumed: under fair scheduling every
\* behaviour reaches the state where the reader, the workers and the filter
\* have all ended, the behaviours in which a worker holding the mutex is
\* blocked on the full output while another waits for the mutex included.
C29_Terminates == <>McTerminated
\* a worker holds the mutex with the output full while another one, with
\* the result of a later item, waits for the mutex
C29_Witness ==
    /\ HolderBlocked
    /\ mcIn = <<>>
    /\ \E v \in DOMAIN mcWorker : mcWorker[v].pc = "lock" /\ mcWorker[v].item.index > mcNext

(***************************************************************************)
(* Properties of Command.                                                  *)
(***************************************************************************)
\* the filter of the stage has returned to runFilter
Returned(s) == pc[s] \in {"record", "close", "drain", "done"}
\* the items sent to the Command by the stage before it
UpstreamItems == IF CmdStage > 1 THEN filters[CmdStage - 1].items ELSE <<>>
\* the process echoes its whole input and exits with status 0
Echoing == TheProcess = Process(TRUE, "all", 0)
\* cmd.Start() or cmd.Wait() fails
CommandFails == ~TheProcess.spawn \/ TheProcess.status # 0

C12_CommandError ==
    /\ Returned(CmdStage) => (ferr[CmdStage] # NoError <=> CommandFails)
    /\ (ForEachReturned /\ CommandFails) => retErr # NoError
    /\ ~TheProcess.spawn =>
          cmdFeeder.pc = "idle" /\ chanHist[OutChan(CmdStage)] = <<>>

StopsReading == TheProcess.spawn /\ TheProcess.reads \in {"none", "one"}
\* everything has ended and every item of the upstream stage was consumed
AllConsumed ==
    /\ dpc = "returned"
    /\ \A t \in Tasks : pc[t] = "done"
    /\ cmdFeeder.pc = "done"
    /\ chanHist[InChan(CmdStage)] = UpstreamItems
    /\ chanBuf[InChan(CmdStage)] = <<>>

SerialLen(argv) == command.len + SumBytes(argv)
\* the input items of an invocation
ItemsOf(run) == SubSeq(run.argv, Len(xArgs) + 1, Len(run.argv))
\* the item fits in an invocation on its own
Fits(s) == SerialLen(Append(xArgs, s)) < limitBytes
AllFit == \A i \in 1..Len(xInput) : Fits(xInput[i])
\* Xargs has returned nil
XReturnedNil == xPc \in {"returned", "done"} /\ xErr = NoError

\* C13, as stated: for every input sequence the serialized length of each
\* invocation made by Xargs stays below limitBytes.
C13_WithinLimit ==
    \A k \in 1..Len(xRuns) : SerialLen(xRuns[k].argv) < limitBytes

\* C13, amended: when every input item fits in an invocation on its own, the
\* serialized length of each invocation made by Xargs stays below limitBytes.
C13_WithinLimitWhenItemsFit ==
    AllFit => \A k \in 1..Len(xRuns) : SerialLen(xRuns[k].argv) < limitBytes

\* items that fit were batched, a batch was ended by the byte limit, and Xargs
\* has returned nil
C13_Witness ==
    /\ AllFit
    /\ XReturnedNil
    /\ \E k \in 1..Len(xRuns) : xRuns[k].byteHit /\ Len(ItemsOf(xRuns[k])) > 1

\* the least number of contiguous batches the items can be split into so that
\* every batch, with the command and the fixed arguments, stays under limitBytes
RECURSIVE MinBatches(_)
MinBatches(items) ==
    IF items = <<>> THEN 0
    ELSE LET ends == {j \in 1..Len(items) :
                         SerialLen(xArgs \o SubSeq(items, 1, j)) < limitBytes}
             rest == {MinBatches(SubSeq(items, j + 1, Len(items))) : j \in ends}
         IN  1 + CHOOSE m \in rest : \A o \in rest : m <= o

\* C14: for items that each fit in an invocation on their own (and no limit on
\* the item count), the number of invocations Xargs has made when it returns nil
\* is the minimum number of contiguous batches that stay under limitBytes.
C14_FewestInvocations ==
    (AllFit /\ xLimit = 0 /\ XReturnedNil) => Len(xRuns) = MinBatches(xInput)

\* several batches, fewer than there are items
C14_Witness ==
    /\ AllFit
    /\ xLimit = 0
    /\ XReturnedNil
    /\ Len(xRuns) > 1
    /\ Len(xRuns) < Len(xInput)

RECURSIVE ConcatItems(_)
ConcatItems(runs) ==
    IF runs = <<>> THEN <<>> ELSE ItemsOf(Head(runs)) \o ConcatItems(Tail(runs))

\* C15: the batches of Xargs partition the input: every invocation's argument
\* list is the fixed arguments followed by a non-empty run of input items, the
\* item lists of the invocations, concatenated in the order they were run, are a
\* prefix of the input, and the whole input once Xargs has returned nil.
C15_Partition ==
    /\ \A k \in 1..Len(xRuns) :
          /\ Len(xRuns[k].argv) > Len(xArgs)
          /\ SubSeq(xRuns[k].argv, 1, Len(xArgs)) = xArgs
          /\ \A i \in 1..Len(ItemsOf(xRuns[k])) : ItemsOf(xRuns[k])[i].id > 0
    /\ IsPrefix(ConcatItems(xRuns), xInput)
    /\ XReturnedNil => ConcatItems(xRuns) = xInput

\* fixed arguments, several batches, nil returned
C15_Witness ==
    /\ xArgs # <<>>
    /\ XReturnedNil
    /\ Len(xRuns) > 1
    /\ Len(xInput) = MaxXargsInput

\* C16: with LimitArgs(m) every invocation receives at most m input items, and
\* every invocation but the last that was not ended by the byte limit receives
\* exactly m.
C16_LimitArgs ==
    xLimit > 0 =>
        \A k \in 1..Len(xRuns) :
            /\ Len(ItemsOf(xRuns[k])) <= xLimit
            /\ (~xRuns[k].last /\ ~xRuns[k].byteHit) =>
                   Len(ItemsOf(xRuns[k])) = xLimit

\* LimitArgs(2): a full batch ended by the count, then a last batch of one item
C16_Witness ==
    /\ xLimit = 2
    /\ XReturnedNil
    /\ Len(xRuns) = 2
    /\ ~xRuns[1].byteHit
    /\ Len(ItemsOf(xRuns[1])) = 2
    /\ Len(ItemsOf(xRuns[2])) = 1

\* C32: Xargs runs its invocations strictly one after another: a process
\* exists only while Xargs is inside run(); when one is started, the output
\* of every earlier invocation has been sent on arg.Out and that process has
\* been waited for; the outputs appear in the order of the batches.
C32_OneAtATime ==
    /\ [](/\ xProc = "running" =>
                (xPc \in {"run", "runLast"} /\ Len(xRuns) = Len(xOut) + 1)
          /\ Len(xOut) <= Len(xRuns)
          /\ Len(xRuns) <= Len(xOut) + 1
          /\ \A i \in 1..Len(xOut) :
                /\ IsPrefix(xOut[i], xRuns[i].argv)
                /\ (i < Len(xRuns) \/ xErr = NoError) => xOut[i] = xRuns[i].argv)
    /\ [][xRuns' # xRuns =>
             (xProc = "none" /\ Len(xOut) = Len(xRuns) /\ xRuns' = Append(xRuns, Invocation))]_vars
\* the process of a third batch runs after the output of the first two was sent
C32_Witness ==
    /\ xProc = "running"
    /\ Len(xRuns) = 3
    /\ Len(xOut) = 2
    /\ xOut[1] # xOut[2]

\* the invocations made for the batch left when the input was exhausted
LastRuns == {k \in 1..Len(xRuns) : xRuns[k].last}

\* C33: Xargs on an empty input makes no invocation and returns nil; on a
\* non-empty input the batch left when the input is exhausted is flushed
\* exactly once: an invocation for it is made only when every input item
\* has been read, it is the final invocation, and Xargs does not return nil
\* without it.
C33_LastBatchOnce ==
    /\ xInput = <<>> =>
          /\ xRuns = <<>>
          /\ xOut = <<>>
          /\ xErr = NoError
    /\ LastRuns \subseteq {Len(xRuns)}
    /\ \A k \in LastRuns :
          /\ Len(ItemsOf(xRuns[k])) > 0
          /\ ConcatItems(xRuns) = xInput
    /\ (xInput # <<>> /\ XReturnedNil) =>
          /\ LastRuns = {Len(xRuns)}
          /\ xIn = <<>>
          /\ ItemsOf(xRuns[Len(xRuns)]) =
                SubSeq(xInput, Len(xInput) - Len(ItemsOf(xRuns[Len(xRuns)])) + 1, Len(xInput))
\* nil returned after two invocations, the last one for a single item left
\* over, with fixed arguments
C33_Witness ==
    /\ XReturnedNil
    /\ xArgs # <<>>
    /\ Len(xRuns) = 2
    /\ LastRuns = {2}
    /\ Len(ItemsOf(xRuns[2])) = 1
    /\ Len(ItemsOf(xRuns[1])) > 1

\* the input items that were never passed to a process
NotPassed == SubSeq(xInput, Len(ConcatItems(xRuns)) + 1, Len(xInput))

\* C34: when an invocation fails, Xargs returns that error at once: the
\* failed invocation is the last one made, nothing is started or sent after
\* the error, the items not yet passed to a process are never passed to
\* one, and the rest of the input is read only by the drain.
C34_ErrorStops ==
    /\ [](xErr # NoError =>
            /\ xPc \in {"returned", "done"}
            /\ xProc = "none"
            /\ xRuns # <<>>
            /\ xErr = ErrorOf(Len(xRuns))
            /\ Len(NotPassed) >= Len(xIn) + Len(xHeld)
            /\ IsPrefix(ConcatItems(xRuns), xInput))
    /\ [][xErr # NoError =>
             /\ xRuns' = xRuns
             /\ xOut' = xOut
             /\ xItems' = xItems
             /\ xErr' = xErr]_vars
\* the first of several batches failed; items were left unpassed and the
\* drain has read the rest of the input
C34_Witness ==
    /\ xErr = ErrorOf(1)
    /\ xPc = "done"
    /\ Len(xRuns) = 1
    /\ Len(NotPassed) >= 2
    /\ xIn = <<>>

(***************************************************************************)
(* Properties of the reservoir Sample.                                     *)
(***************************************************************************)
\* C17: the reservoir never holds more than k items, after any number of input
\* items and for any sequence of random draws.
C17_ReservoirBound == Len(rsReservoir) <= rsK

\* the reservoir is full and an item was replaced in it
C17_Witness ==
    /\ rsK > 0
    /\ Len(rsReservoir) = rsK
    /\ rsI > rsK
    /\ rsReservoir # SubSeq(rsInput, 1, rsK)

\* The weight of the runs from the state (i, res) of the loop that end with v in
\* the reservoir (of all the runs from that state when all is TRUE): the sum over
\* the sequences of draws of the product of the weights of their outcomes.
RECURSIVE Weight(_, _, _, _)
RECURSIVE SumWeight(_, _, _, _, _)
Weight(i, res, v, all) ==
    IF i = Len(rsInput)
    THEN IF all \/ \E p \in 1..Len(res) : res[p] = v THEN 1 ELSE 0
    ELSE SumWeight(i, res, v, all,
                   Len(Outcomes(rsVariant, rsK, i, res, rsInput[i + 1])))
SumWeight(i, res, v, all, m) ==
    IF m = 0 THEN 0
    ELSE LET o == Outcomes(rsVariant, rsK, i, res, rsInput[i + 1])[m]
         IN  o.w * Weight(i + 1, o.res, v, all) + SumWeight(i, res, v, all, m - 1)

\* C20: sampling k items from a stream of n distinct values, each value is
\* selected with probability k/n: over all sequences of draws, the weight of the
\* runs that select a value is k/n of the weight of all runs.
C20_Fair ==
    (rsPc = "done" /\ rsK >= 1 /\ rsK <= Len(rsInput)) =>
        \A v \in 1..Len(rsInput) :
            Weight(0, <<>>, v, FALSE) * Len(rsInput)
                = rsK * Weight(0, <<>>, v, TRUE)

\* a run that has sampled fewer items than the input has, the last one among them
C20_Witness ==
    /\ rsPc = "done"
    /\ rsK >= 2
    /\ Len(rsInput) = MaxSampleInput
    /\ Len(rsOut) = rsK
    /\ \E p \in 1..Len(rsOut) : rsOut[p] = Len(rsInput)

\* the smaller of two numbers
Least(a, b) == IF a <= b THEN a ELSE b

\* C35: each of the first k input items is appended to the reservoir without
\* a random draw: while at most k items have been read no draw was made and
\* the reservoir is the items read, in order; one draw is made for each later
\* item; for an input of n <= k items the output is the input, in order.
C35_FirstItemsKept ==
    /\ rsI <= rsK =>
          /\ rsDraws = <<>>
          /\ rsReservoir = SubSeq(rsInput, 1, rsI)
    /\ rsI > rsK => Len(rsDraws) = rsI - rsK
    /\ (rsPc = "done" /\ Len(rsInput) <= rsK) => rsOut = rsInput
    /\ (rsPc = "emit" /\ Len(rsInput) <= rsK) => IsPrefix(rsOut, rsInput)
\* Sample(3) has emitted an input of three items, and no draw was made
C35_Witness ==
    /\ rsPc = "done"
    /\ rsK = MaxSampleK
    /\ Len(rsInput) = rsK
    /\ rsOut = rsInput
    /\ rsDraws = <<>>

\* the input positions of the items of a sequence are distinct positions of
\* the first i input items (the item at input position p is p)
DistinctPositions(items, i) ==
    /\ \A a \in 1..Len(items) : items[a] \in 1..i /\ rsInput[items[a]] = items[a]
    /\ \A a, b \in 1..Len(items) : items[a] = items[b] => a = b

\* C36: for every k >= 0, every input and every sequence of draws, Sample(k)
\* emits exactly min(k, n) items, each from a distinct input position; with
\* k = 0 it emits nothing.
C36_DistinctSample ==
    /\ Len(rsReservoir) = Least(rsK, rsI)
    /\ DistinctPositions(rsReservoir, rsI)
    /\ DistinctPositions(rsOut, Len(rsInput))
    /\ Len(rsOut) <= Least(rsK, Len(rsInput))
    /\ rsPc = "done" => Len(rsOut) = Least(rsK, Len(rsInput))
    /\ rsK = 0 => rsOut = <<>>
\* two of four items were emitted after draws replaced both of the first two
C36_Witness ==
    /\ rsPc = "done"
    /\ rsK = 2
    /\ Len(rsInput) = MaxSampleInput
    /\ Len(rsOut) = 2
    /\ \A a \in 1..2 : rsOut[a] > 2

Seen(i) == {[hash |-> Hash(<<p, hsInput[p]>>), item |-> hsInput[p]] : p \in 1..i}
\* the k entries with the largest hash (all of them when there are fewer)
Largest(S, k) == {x \in S : Cardinality({y \in S : y.hash > x.hash}) < k}
\* the items of the entries in ascending hash order
RECURSIVE Ascending(_)
Ascending(S) ==
    IF S = {} THEN <<>>
    ELSE LET m == CHOOSE x \in S : \A y \in S : x.hash <= y.hash
         IN  <<m.item>> \o Ascending(S \ {m})
HeapEntries(r) == {hsRun[r].h[p] : p \in 1..Len(hsRun[r].h)}

\* C19: after each input item the heap holds at most k entries, exactly the k
\* with the largest hash of (index, value) among the items seen so far; at the
\* end of the input those min(k, n) items are emitted in ascending hash order.
C19_LargestHashes ==
    \A r \in Runs :
        /\ hsRun[r].pc = "loop" =>
              /\ Len(hsRun[r].h) <= hsK
              /\ Cardinality(HeapEntries(r)) = Len(hsRun[r].h)
              /\ HeapEntries(r) = Largest(Seen(hsRun[r].i), hsK)
        /\ hsRun[r].pc \in {"emit", "done"} =>
              IsPrefix(hsRun[r].out, Ascending(Largest(Seen(Len(hsInput)), hsK)))
        /\ hsRun[r].pc = "done" =>
              hsRun[r].out = Ascending(Largest(Seen(Len(hsInput)), hsK))

\* an entry was evicted from a full heap that holds more than one entry
C19_Witness ==
    \E r \in Runs :
        /\ hsRun[r].pc = "loop"
        /\ hsK > 1
        /\ hsRun[r].i > hsK
        /\ Len(hsRun[r].h) = hsK
        /\ HeapEntries(r) # Seen(hsK)

(***************************************************************************)
(* Properties of two invocations of Sample.                                *)
(***************************************************************************)
\* an invocation running alone: the loop over the input from the state st
RECURSIVE Alone(_, _, _, _)
Alone(variant, k, in, st) ==
    IF in = <<>> THEN st
    ELSE LET it == Iteration(variant, k, st.i, st.res, Head(in), st.g)
         IN  Alone(variant, k, Tail(in),
                   [i |-> st.i + 1, res |-> it.res, g |-> it.g,
                    draws |-> st.draws \o it.draw])
\* what k, the input and the seed alone make of an invocation
AloneWithSeed(seed) ==
    Alone(rsVariant, rsK, rsInput,
          [i |-> 0, res |-> <<>>, g |-> NewSource(seed), draws |-> <<>>])

Occurrences(seq, v) == Cardinality({i \in DOMAIN seq : seq[i] = v})
\* everything fn sends for the items of the sequence
RECURSIVE ResultsOf(_)
ResultsOf(in) == IF in = <<>> THEN <<>> ELSE parFn(Head(in)) \o ResultsOf(Tail(in))
SameItems(s, t) ==
    /\ Len(s) = Len(t)
    /\ \A i \in DOMAIN s : Occurrences(s, s[i]) = Occurrences(t, s[i])

\* C22: Parallel(n, fn) with n >= 1 calls fn exactly once for each input
\* item, each item by one worker; the filter returns only after the input is
\* exhausted and every worker has ended, and what was sent on arg.Out is
\* then, as a multiset, what fn sent for the items of the input
C22_OncePerItem ==
    /\ \A i, j \in DOMAIN parCalls : parCalls[i].pos = parCalls[j].pos => i = j
    /\ \A i \in DOMAIN parCalls :
          /\ parCalls[i].pos \in DOMAIN mcInput
          /\ parCalls[i].value = mcInput[parCalls[i].pos]
    /\ (parWorker # <<>> /\ mcMain # "wait") =>
          /\ mcIn = <<>>
          /\ \A w \in DOMAIN parWorker : parWorker[w].pc = "done"
          /\ {parCalls[i].pos : i \in DOMAIN parCalls} = DOMAIN mcInput
          /\ SameItems(mcEmitted, ResultsOf(mcInput))
\* two workers have shared the longest input and the results were sent in
\* another order than the input's
C22_Witness ==
    /\ parWorker # <<>>
    /\ mcMain = "done"
    /\ Len(mcInput) = MaxInput
    /\ {parCalls[i].worker : i \in DOMAIN parCalls} = {1, 2}
    /\ mcEmitted # ResultsOf(mcInput)

====
